---- MODULE Spec2Model ----
(***************************************************************************)
(* Secure client file portal: the upload component, the user file manager, *)
(* the admin dashboard and the DatabaseService quota helper, running       *)
(* against the hosted storage / document database.                         *)
(*                                                                         *)
(* Every awaited hosted call is split where the source lets other events   *)
(* in: the call takes effect at the backend in one step and the handler    *)
(* continues (setState, toast, next call) in a later one whenever the      *)
(* continuation writes component state other handlers also write.          *)
(***************************************************************************)
EXTENDS Integers, Sequences, FiniteSets, TLC

(***************************************************************************)
(* Bounds of the model                                                     *)
(***************************************************************************)
\* The last value of Date.now(), the source of ids and timestamps.
MaxClock == 4
\* The progress entries the upload component creates.
MaxEntries == 2
\* The clock bound of the batches handled to their end: room for the two
\* clock readings of each file of a batch of two.
MaxBatchClock == 5
\* The uploads of a run that fills a user's storage.
MaxFill == 103

(***************************************************************************)
(* Program constants                                                       *)
(***************************************************************************)
MAX_FILE_SIZE == 10 * 1024 * 1024
DEFAULT_QUOTA_BYTES == 1073741824
LOG_LIMIT == 50
ADMIN_FILE_LIMIT == 1000
ADMIN_LOG_LIMIT == 500
UNKNOWN_FILE == <<"U","n","k","n","o","w","n"," ","f","i","l","e">>

Users == {"alice", "admin"}

\* File names are sequences of characters, so that toLowerCase and includes
\* are computed, not assumed.
InvoicePdf == <<"I","n","v","o","i","c","e",".","p","d","f">>
NotesTxt == <<"n","o","t","e","s",".","T","X","T">>

\* The File objects a user can pick (name, size in bytes).
SmallFile == [name |-> InvoicePdf, size |-> 2048]
LimitFile == [name |-> InvoicePdf, size |-> MAX_FILE_SIZE]
BigFile == [name |-> NotesTxt, size |-> MAX_FILE_SIZE + 1]
NotesFile == [name |-> NotesTxt, size |-> 512]

NoFile == [name |-> <<>>, size |-> 0]

\* Handlers in flight at the same time (slots).
RunIds == {1, 2}
LoadIds == {1, 2}
DeleteIds == {1}
AdminLoadIds == {1}
AdminDeleteIds == {1}
QuotaIds == {1, 2}

\* The user who works with the admin dashboard.
Admin == "admin"

\* The usedBytes values passed to updateStorageUsage.
UsageValues == {0, 4096}

VARIABLES
  storage,         \* hosted object storage: path -> size of the object stored
  dbFiles,         \* hosted database, collection files
  dbLogs,          \* hosted database, collection fileAccessLogs
  dbQuotas,        \* hosted database, collection userStorageQuotas (rows)
  clock,           \* Date.now(): source of ids and timestamps
  uploadingFiles,  \* FileUpload state: progress entries, per user
  nextEntry,       \* Math.random(): source of the progress entries' ids
  toast,           \* the toasts raised by the step just taken
  refreshTrigger,  \* App state, per user
  effectRan,       \* the refreshTrigger value the FileManager effect ran for
  files,           \* FileManager state, per user
  totalStorage,    \* FileManager state, per user
  accessLogs,      \* FileManager state, per user
  loading,         \* FileManager state, per user
  searchTerm,      \* FileManager state, per user
  hf,              \* handleFiles runs in flight
  lf,              \* loadFiles calls in flight
  hd,              \* handleDelete calls in flight
  allFiles,        \* AdminDashboard state
  allLogs,         \* AdminDashboard state
  userStats,       \* AdminDashboard state
  adminLoading,    \* AdminDashboard state (loading)
  al,              \* loadAdminData calls in flight
  ad,              \* handleAdminDelete calls in flight
  qc,              \* DatabaseService quota calls in flight
  login,           \* EmailLogin state and its handler in flight
  guard,           \* AdminGuard state and its effect in flight
  opened           \* window.open: the file the step just taken opened

vars == <<storage, dbFiles, dbLogs, dbQuotas, clock, uploadingFiles, nextEntry,
          toast, refreshTrigger, effectRan, files, totalStorage, accessLogs,
          loading, searchTerm, hf, lf, hd, allFiles, allLogs, userStats,
          adminLoading, al, ad, qc, login, guard, opened>>

adminVars == <<allFiles, allLogs, userStats, adminLoading, al, ad>>
backendVars == <<storage, dbFiles, dbLogs, dbQuotas, clock>>
managerVars == <<files, totalStorage, accessLogs, loading>>
formVars == <<searchTerm, login, guard>>

(***************************************************************************)
(* Pure helpers                                                            *)
(***************************************************************************)
RECURSIVE SumSizes(_)
SumSizes(s) ==
  IF s = <<>> THEN 0 ELSE Head(s).fileSize + SumSizes(Tail(s))

\* orderBy: { <timestamp>: 'desc' } over a result set; at is the timestamp.
RECURSIVE OrderDesc(_)
OrderDesc(S) ==
  IF S = {} THEN <<>>
  ELSE LET m == CHOOSE x \in S : \A y \in S : y.at <= x.at
       IN <<m>> \o OrderDesc(S \ {m})

Take(s, n) == IF Len(s) <= n THEN s ELSE SubSeq(s, 1, n)

storagePathOf(u, name) == <<"clients", u, name>>

\* toast({ title, description }) shown to user u about the file called name.
Toast(u, title, name) == [user |-> u, title |-> title, name |-> name]

NoOp == [op |-> "none", fileId |-> 0, userId |-> "none"]

(***************************************************************************)
(* Hosted database queries                                                 *)
(***************************************************************************)
\* The file query without its where clause.
ListFilesOfAnyUser(u) == OrderDesc(dbFiles)

\* blink.db.files.list({ where: { userId }, orderBy: { uploadedAt: 'desc' } })
ListUserFiles(u) == OrderDesc({f \in dbFiles : f.userId = u})

\* blink.db.fileAccessLogs.list({ where: { userId }, orderBy, limit: 50 })
ListUserLogs(u) == Take(OrderDesc({l \in dbLogs : l.userId = u}), LOG_LIMIT)

FileRecord(id, u, file, at) ==
  [id |-> id, userId |-> u, fileName |-> file.name, fileSize |-> file.size,
   storagePath |-> storagePathOf(u, file.name),
   publicUrl |-> storagePathOf(u, file.name), at |-> at]

LogEntry(id, fileId, u, action, at) ==
  [id |-> id, fileId |-> fileId, userId |-> u, action |-> action, at |-> at]

\* file_access_logs: FOREIGN KEY (file_id) REFERENCES files(id) ON DELETE
\* CASCADE.  Whether the hosted database enforces the foreign key is not
\* decided by the repository: both outcomes are possible.
Cascades == BOOLEAN

\* blink.db.files.delete(fileId) takes effect (ok) or throws; with the
\* foreign key in force (cascade) the log entries of the row deleted go too.
DeleteRecord(fileId, ok, cascade) ==
  /\ dbFiles' = IF ok THEN {f \in dbFiles : f.id # fileId} ELSE dbFiles
  /\ dbLogs' =
       IF ok /\ cascade /\ (\E f \in dbFiles : f.id = fileId)
       THEN {l \in dbLogs : l.fileId # fileId}
       ELSE dbLogs

(***************************************************************************)
(* Slots of the handlers in flight                                         *)
(***************************************************************************)
IdleRun == [pc |-> "idle", user |-> "none", queue |-> <<>>, cur |-> NoFile,
            entryId |-> 0, fileId |-> 0]
NewLoad(u) == [pc |-> "files", user |-> u, userFiles |-> <<>>, logs |-> <<>>]
NoRecord == [id |-> 0, userId |-> "none", fileName |-> <<>>, fileSize |-> 0,
             storagePath |-> <<>>, publicUrl |-> <<>>, at |-> 0]
IdleDelete == [pc |-> "idle", user |-> "none", file |-> NoRecord, ok |-> TRUE]

IdleAdminLoad == [pc |-> "idle", files |-> <<>>, logs |-> <<>>]
NoQuota == [userId |-> "none", quotaBytes |-> 0, usedBytes |-> 0,
            createdAt |-> 0, updatedAt |-> 0]
IdleQuota == [pc |-> "idle", user |-> "none", kind |-> "none", usedBytes |-> 0,
              result |-> NoQuota]

\* EmailLogin as mounted: useState('') ..., no handler in flight, the page
\* shown and no reload timer set.
InitialLogin ==
  [email |-> <<>>, verificationCode |-> <<>>, step |-> "email",
   loading |-> FALSE, error |-> "", success |-> "", pc |-> "idle",
   page |-> "shown", reloadTimer |-> FALSE]

\* currentUser.email of an account without an email.
NoEmail == <<"undefined">>
NoAccount == [email |-> NoEmail]

\* AdminGuard before it is mounted, and as mounted for the signed-in
\* account: user null, loading true, isAdmin false, the effect under way.
NoGuard ==
  [pc |-> "unmounted", account |-> NoAccount, user |-> NoAccount,
   loading |-> TRUE, isAdmin |-> FALSE]
InitialGuard(account) == [NoGuard EXCEPT !.pc = "check", !.account = account]

FreeSlots(f) == {i \in DOMAIN f : f[i].pc = "idle"}
FirstFree(f) == CHOOSE i \in FreeSlots(f) : \A j \in FreeSlots(f) : i <= j

\* loadFiles() is called: setLoading(true), then await blink.auth.me().  The
\* calls in flight are kept in the order they were made.
StartLoad(lfv, u) == Append(lfv, NewLoad(u))
CanStartLoad == Len(lf) < Cardinality(LoadIds)
EndLoad(lfv, l) == SubSeq(lfv, 1, l - 1) \o SubSeq(lfv, l + 1, Len(lfv))

\* The components as mounted: the initial values of their state.
ClientInit ==
  /\ uploadingFiles = [u \in Users |-> <<>>]
  /\ nextEntry = 1
  /\ toast = <<>>
  /\ refreshTrigger = [u \in Users |-> 0]
  /\ effectRan = [u \in Users |-> -1]
  /\ files = [u \in Users |-> <<>>]
  /\ totalStorage = [u \in Users |-> 0]
  /\ accessLogs = [u \in Users |-> <<>>]
  /\ loading = [u \in Users |-> TRUE]
  /\ searchTerm = [u \in Users |-> <<>>]
  /\ hf = [r \in RunIds |-> IdleRun]
  /\ lf = <<>>
  /\ hd = [d \in DeleteIds |-> IdleDelete]
  /\ allFiles = <<>>
  /\ allLogs = <<>>
  /\ userStats = <<>>
  /\ adminLoading = TRUE
  /\ al = [a \in AdminLoadIds |-> [IdleAdminLoad EXCEPT !.pc = "files"]]
  /\ ad = [a \in AdminDeleteIds |-> IdleDelete]
  /\ qc = [c \in QuotaIds |-> IdleQuota]
  /\ login = InitialLogin
  /\ guard = NoGuard
  /\ opened = NoOp

\* The portal opened for the first time: nothing is stored yet.
Init ==
  /\ storage = <<>>
  /\ dbFiles = {}
  /\ dbLogs = {}
  /\ dbQuotas = <<>>
  /\ clock = 1
  /\ ClientInit

(***************************************************************************)
(* FileUpload: handleFiles                                                 *)
(***************************************************************************)
\* The file lists of the file-select / drop events.
Batches ==
  { <<SmallFile>>, <<LimitFile>>, <<BigFile, SmallFile>>,
    <<LimitFile, BigFile>>, <<SmallFile, NotesFile>> }

\* The size check with the limit written with a digit too many.
TooLargeTenfold(file) == file.size > 100 * 1024 * 1024

\* The size check written with >= for >.
TooLargeAtLimit(file) == file.size >= MAX_FILE_SIZE

\* The size check of the loop: file.size > 10 * 1024 * 1024.
TooLarge(file) == file.size > MAX_FILE_SIZE

\* The files the loop rejects before it reaches a file it accepts.
RECURSIVE RejectedPrefix(_)
RejectedPrefix(q) ==
  IF q # <<>> /\ TooLarge(Head(q))
  THEN <<Head(q)>> \o RejectedPrefix(Tail(q))
  ELSE <<>>

RECURSIVE AfterRejected(_)
AfterRejected(q) ==
  IF q # <<>> /\ TooLarge(Head(q)) THEN AfterRejected(Tail(q)) ELSE q

UploadEntry(id, file) ==
  [id |-> id, file |-> file, progress |-> 0, status |-> "uploading"]

\* prev.map(f => f.id === id ? { ...f, <fields> } : f)
MapEntry(list, id, fields) ==
  [i \in 1..Len(list) |->
     IF list[i].id = id
     THEN [k \in DOMAIN list[i] |->
             IF k \in DOMAIN fields THEN fields[k] ELSE list[i][k]]
     ELSE list[i]]

\* The for loop from its head, with q the files still to handle: the
\* oversized ones are rejected (toast, continue), then the next file is
\* taken: its progress entry is appended and blink.storage.upload is called.
LoopRun(u, q) ==
  LET rest == AfterRejected(q) IN
  IF rest = <<>> THEN IdleRun
  ELSE [pc |-> "upload", user |-> u, queue |-> Tail(rest), cur |-> Head(rest),
        entryId |-> nextEntry, fileId |-> 0]

\* One "File too large" toast for each file rejected.
LoopToasts(u, q) ==
  LET rej == RejectedPrefix(q)
  IN [i \in 1..Len(rej) |-> Toast(u, "File too large", rej[i].name)]

\* The loop with the uploads fanned out: a progress entry for every file
\* left that is not too large.
LoopEntriesFannedOut(ents, q) ==
  LET Accepted(file) == ~TooLarge(file)
      rest == SelectSeq(q, Accepted)
  IN ents \o [i \in 1..Len(rest) |-> UploadEntry(nextEntry + i - 1, rest[i])]

LoopEntries(ents, q) ==
  LET rest == AfterRejected(q) IN
  IF rest = <<>> THEN ents ELSE Append(ents, UploadEntry(nextEntry, Head(rest)))

\* The loop goes on from its head after the file of run r, which raised the
\* toasts ts and left the progress entries ents.
Loop(r, ts, ents) ==
  LET u == hf[r].user
      q == hf[r].queue
  IN /\ hf' = [hf EXCEPT ![r] = LoopRun(u, q)]
     /\ toast' = ts \o LoopToasts(u, q)
     /\ uploadingFiles' = [uploadingFiles EXCEPT ![u] = LoopEntries(ents, q)]
     /\ nextEntry' =
          IF AfterRejected(q) = <<>> THEN nextEntry ELSE nextEntry + 1

\* handleDrop / handleFileSelect: handleFiles(files) starts and awaits
\* blink.auth.me().
handleFilesStart(r, u, batch) ==
  /\ hf[r].pc = "idle"
  /\ hf' = [hf EXCEPT ![r] =
              [IdleRun EXCEPT !.pc = "auth", !.user = u, !.queue = batch]]
  /\ toast' = <<>>
  /\ opened' = NoOp
  /\ UNCHANGED <<adminVars, qc, backendVars, uploadingFiles, nextEntry,
                 refreshTrigger, effectRan, managerVars, formVars, lf, hd>>

\* blink.auth.me() returns (or throws: the rejection leaves handleFiles, which
\* has no try around it) and the loop starts.
handleFilesAuth(r, ok) ==
  /\ hf[r].pc = "auth"
  /\ IF ok
       THEN Loop(r, <<>>, uploadingFiles[hf[r].user])
       ELSE /\ hf' = [hf EXCEPT ![r] = IdleRun]
            /\ toast' = <<>> /\ UNCHANGED <<uploadingFiles, nextEntry>>
  /\ opened' = NoOp
  /\ UNCHANGED <<adminVars, qc, backendVars, refreshTrigger, effectRan,
                 managerVars, formVars, lf, hd>>

\* onProgress(percent) while the storage upload is in flight.
uploadProgress(r) ==
  /\ hf[r].pc = "upload"
  /\ LET u == hf[r].user
         Change == [progress |-> 50]
     IN /\ \A i \in 1..Len(uploadingFiles[u]) :
             uploadingFiles[u][i].id = hf[r].entryId =>
               uploadingFiles[u][i].progress # 50
        /\ uploadingFiles' =
             [uploadingFiles EXCEPT ![u] = MapEntry(@, hf[r].entryId, Change)]
  /\ toast' = <<>>
  /\ opened' = NoOp
  /\ UNCHANGED <<adminVars, qc, backendVars, nextEntry, refreshTrigger,
                 effectRan, managerVars, formVars, hf, lf, hd>>

\* A catch block that leaves the loop: the files left are dropped.
UploadFailedStopping(r) ==
  LET u == hf[r].user
      Change == [status |-> "error"]
  IN /\ hf' = [hf EXCEPT ![r] = IdleRun]
     /\ toast' = <<Toast(u, "Upload failed", hf[r].cur.name)>>
     /\ uploadingFiles' =
          [uploadingFiles EXCEPT ![u] = MapEntry(@, hf[r].entryId, Change)]
     /\ UNCHANGED nextEntry

\* The catch block of the loop body, then the loop goes on with the next file.
UploadFailed(r) ==
  LET Change == [status |-> "error"]
  IN Loop(r, <<Toast(hf[r].user, "Upload failed", hf[r].cur.name)>>,
          MapEntry(uploadingFiles[hf[r].user], hf[r].entryId, Change))

\* The storage upload with its failure ignored: the handler goes on to the
\* record create.
handleFilesUploadAnyway(r, ok) ==
  /\ hf[r].pc = "upload"
  /\ LET path == storagePathOf(hf[r].user, hf[r].cur.name) IN
     storage' = IF ok
                THEN [p \in DOMAIN storage \cup {path} |->
                        IF p = path THEN hf[r].cur.size ELSE storage[p]]
                ELSE storage
  /\ hf' = [hf EXCEPT ![r].pc = "create"]
  /\ toast' = <<>>
  /\ opened' = NoOp
  /\ UNCHANGED <<adminVars, qc, dbFiles, dbLogs, dbQuotas, clock,
                 uploadingFiles, nextEntry, refreshTrigger, effectRan,
                 managerVars, formVars, lf, hd>>

\* await blink.storage.upload(file, storagePath, { upsert: true, ... })
handleFilesUpload(r, ok) ==
  /\ hf[r].pc = "upload"
  /\ IF ok
       THEN LET path == storagePathOf(hf[r].user, hf[r].cur.name) IN
            /\ storage' = [p \in DOMAIN storage \cup {path} |->
                             IF p = path THEN hf[r].cur.size ELSE storage[p]]
            /\ hf' = [hf EXCEPT ![r].pc = "create"]
            /\ toast' = <<>> /\ UNCHANGED <<uploadingFiles, nextEntry>>
       ELSE /\ UploadFailed(r)
            /\ UNCHANGED storage
  /\ opened' = NoOp
  /\ UNCHANGED <<adminVars, qc, dbFiles, dbLogs, dbQuotas, clock,
                 refreshTrigger, effectRan, managerVars, formVars, lf, hd>>

\* The record create of an upload that removes the stored object again when
\* the create fails.
handleFilesCreateWithCleanup(r, ok) ==
  /\ hf[r].pc = "create"
  /\ IF ok
       THEN /\ dbFiles' = dbFiles \cup
                 {FileRecord(clock, hf[r].user, hf[r].cur, clock)}
            /\ clock' = clock + 1
            /\ hf' = [hf EXCEPT ![r].pc = "log", ![r].fileId = clock]
            /\ toast' = <<>> /\ UNCHANGED <<uploadingFiles, nextEntry, storage>>
       ELSE /\ UploadFailed(r)
            /\ storage' =
                 [p \in DOMAIN storage \
                    {storagePathOf(hf[r].user, hf[r].cur.name)} |-> storage[p]]
            /\ UNCHANGED <<dbFiles, clock>>
  /\ opened' = NoOp
  /\ UNCHANGED <<adminVars, qc, dbLogs, dbQuotas, refreshTrigger,
                 effectRan, managerVars, formVars, lf, hd>>

\* The record create of an upload that also adds the file's size to the
\* usedBytes of the user's quota record.
handleFilesCreateCountingUsage(r, ok) ==
  /\ hf[r].pc = "create"
  /\ IF ok
       THEN /\ dbFiles' = dbFiles \cup
                 {FileRecord(clock, hf[r].user, hf[r].cur, clock)}
            /\ dbQuotas' =
                 [i \in 1..Len(dbQuotas) |->
                    IF dbQuotas[i].userId = hf[r].user
                    THEN [dbQuotas[i] EXCEPT !.usedBytes = @ + hf[r].cur.size]
                    ELSE dbQuotas[i]]
            /\ clock' = clock + 1
            /\ hf' = [hf EXCEPT ![r].pc = "log", ![r].fileId = clock]
            /\ toast' = <<>> /\ UNCHANGED <<uploadingFiles, nextEntry>>
       ELSE /\ UploadFailed(r)
            /\ UNCHANGED <<dbFiles, dbQuotas, clock>>
  /\ opened' = NoOp
  /\ UNCHANGED <<adminVars, qc, storage, dbLogs, refreshTrigger,
                 effectRan, managerVars, formVars, lf, hd>>

\* await blink.db.files.create({ id: fileId, userId, fileName, ... })
handleFilesCreate(r, ok) ==
  /\ hf[r].pc = "create"
  /\ IF ok
       THEN /\ dbFiles' = dbFiles \cup
                 {FileRecord(clock, hf[r].user, hf[r].cur, clock)}
            /\ clock' = clock + 1
            /\ hf' = [hf EXCEPT ![r].pc = "log", ![r].fileId = clock]
            /\ toast' = <<>> /\ UNCHANGED <<uploadingFiles, nextEntry>>
       ELSE /\ UploadFailed(r)
            /\ UNCHANGED <<dbFiles, clock>>
  /\ opened' = NoOp
  /\ UNCHANGED <<adminVars, qc, storage, dbLogs, dbQuotas, refreshTrigger,
                 effectRan, managerVars, formVars, lf, hd>>

\* logFileAccess(fileId, action): blink.db.fileAccessLogs.create inside a try
\* whose catch only writes to the console.  ok is whether blink.auth.me()
\* and the create both succeed.
logFileAccess(ok, fileId, u, action) ==
  IF ok
  THEN /\ dbLogs' = dbLogs \cup {LogEntry(clock, fileId, u, action, clock)}
       /\ clock' = clock + 1
  ELSE UNCHANGED <<dbLogs, clock>>

\* A completion that does not call onUploadComplete().
handleFilesLogNoCallback(r, ok) ==
  /\ hf[r].pc = "log"
  /\ logFileAccess(ok, hf[r].fileId, hf[r].user, "upload")
  /\ LET u == hf[r].user
         Change == [status |-> "completed", progress |-> 100]
     IN Loop(r, <<Toast(u, "Upload successful", hf[r].cur.name)>>,
             MapEntry(uploadingFiles[u], hf[r].entryId, Change))
  /\ opened' = NoOp
  /\ UNCHANGED <<adminVars, qc, storage, dbFiles, dbQuotas, effectRan,
                 managerVars, formVars, lf, hd, refreshTrigger>>

\* await logFileAccess(fileId, 'upload'), then the entry is marked completed,
\* the success toast is shown and onUploadComplete() bumps the refresh
\* trigger; the loop goes on.
handleFilesLog(r, ok) ==
  /\ hf[r].pc = "log"
  /\ logFileAccess(ok, hf[r].fileId, hf[r].user, "upload")
  /\ LET u == hf[r].user
         Change == [status |-> "completed", progress |-> 100]
     IN /\ Loop(r, <<Toast(u, "Upload successful", hf[r].cur.name)>>,
                MapEntry(uploadingFiles[u], hf[r].entryId, Change))
        /\ refreshTrigger' = [refreshTrigger EXCEPT ![u] = @ + 1]
  /\ opened' = NoOp
  /\ UNCHANGED <<adminVars, qc, storage, dbFiles, dbQuotas, effectRan,
                 managerVars, formVars, lf, hd>>

\* removeUploadingFile(id)
\* A removal that also gives up the run whose file the entry tracks.
removeUploadingFileAborting(u, id) ==
  /\ \E i \in 1..Len(uploadingFiles[u]) : uploadingFiles[u][i].id = id
  /\ LET Keep(f) == f.id # id
     IN uploadingFiles' = [uploadingFiles EXCEPT ![u] = SelectSeq(@, Keep)]
  /\ hf' = [r \in RunIds |->
             IF hf[r].pc \in {"upload", "create", "log"}
                /\ hf[r].user = u /\ hf[r].entryId = id
             THEN IdleRun
             ELSE hf[r]]
  /\ toast' = <<>>
  /\ opened' = NoOp
  /\ UNCHANGED <<adminVars, qc, backendVars, nextEntry, refreshTrigger,
                 effectRan, managerVars, formVars, lf, hd>>

removeUploadingFile(u, id) ==
  /\ \E i \in 1..Len(uploadingFiles[u]) : uploadingFiles[u][i].id = id
  /\ LET Keep(f) == f.id # id
     IN uploadingFiles' = [uploadingFiles EXCEPT ![u] = SelectSeq(@, Keep)]
  /\ toast' = <<>>
  /\ opened' = NoOp
  /\ UNCHANGED <<adminVars, qc, backendVars, nextEntry, refreshTrigger,
                 effectRan, managerVars, formVars, hf, lf, hd>>


(***************************************************************************)
(* FileManager: loadFiles                                                  *)
(***************************************************************************)
\* useEffect(() => { loadFiles() }, [loadFiles, refreshTrigger]): runs on
\* mount and after a render with a new refreshTrigger.
refreshEffect(u) ==
  /\ effectRan[u] # refreshTrigger[u]
  /\ CanStartLoad
  /\ effectRan' = [effectRan EXCEPT ![u] = refreshTrigger[u]]
  /\ lf' = StartLoad(lf, u)
  /\ loading' = [loading EXCEPT ![u] = TRUE]
  /\ toast' = <<>>
  /\ opened' = NoOp
  /\ UNCHANGED <<adminVars, qc, backendVars, uploadingFiles, nextEntry,
                 refreshTrigger, files, totalStorage, accessLogs, formVars,
                 hf, hd>>

\* The catch and finally blocks of loadFiles.
LoadFailed(l) ==
  /\ toast' = <<Toast(lf[l].user, "Error loading files", <<>>)>>
  /\ loading' = [loading EXCEPT ![lf[l].user] = FALSE]
  /\ lf' = EndLoad(lf, l)

\* blink.auth.me() returned and blink.db.files.list(...) takes effect at the
\* backend.
loadFilesList(l) ==
  /\ l \in 1..Len(lf)
  /\ lf[l].pc = "files"
  /\ lf' = [lf EXCEPT ![l].pc = "filesResp",
                      ![l].userFiles = ListUserFiles(lf[l].user)]
  /\ toast' = <<>>
  /\ opened' = NoOp
  /\ UNCHANGED <<adminVars, qc, backendVars, uploadingFiles, nextEntry,
                 refreshTrigger, effectRan, managerVars, formVars, hf, hd>>

\* The list returns: setFiles(userFiles), setTotalStorage(total), and the
\* log query is sent; or blink.auth.me() or the list threw.
loadFilesSetFiles(l, ok) ==
  /\ l \in 1..Len(lf)
  /\ lf[l].pc = "filesResp"
  /\ IF ok
       THEN /\ files' = [files EXCEPT ![lf[l].user] = lf[l].userFiles]
            /\ totalStorage' =
                 [totalStorage EXCEPT ![lf[l].user] = SumSizes(lf[l].userFiles)]
            /\ lf' = [lf EXCEPT ![l].pc = "logs"]
            /\ toast' = <<>> /\ UNCHANGED <<loading>>
       ELSE /\ LoadFailed(l)
            /\ UNCHANGED <<files, totalStorage>>
  /\ opened' = NoOp
  /\ UNCHANGED <<adminVars, qc, backendVars, uploadingFiles, nextEntry,
                 refreshTrigger, effectRan, accessLogs, formVars, hf, hd>>

\* blink.db.fileAccessLogs.list(...) takes effect at the backend.
loadFilesLogs(l) ==
  /\ l \in 1..Len(lf)
  /\ lf[l].pc = "logs"
  /\ lf' = [lf EXCEPT ![l].pc = "logsResp",
                      ![l].logs = ListUserLogs(lf[l].user)]
  /\ toast' = <<>>
  /\ opened' = NoOp
  /\ UNCHANGED <<adminVars, qc, backendVars, uploadingFiles, nextEntry,
                 refreshTrigger, effectRan, managerVars, formVars, hf, hd>>

\* userFiles.find(f => f.id === log.fileId)?.fileName || 'Unknown file'
RECURSIVE FileNameFor(_, _)
FileNameFor(fs, fileId) ==
  IF fs = <<>> THEN UNKNOWN_FILE
  ELSE IF Head(fs).id = fileId
       THEN (IF Head(fs).fileName = <<>> THEN UNKNOWN_FILE
             ELSE Head(fs).fileName)
       ELSE FileNameFor(Tail(fs), fileId)

\* logs.map(log => ({ ...log, fileName: ... }))
EnrichLogs(logs, fs) ==
  [i \in 1..Len(logs) |->
     [id |-> logs[i].id, fileId |-> logs[i].fileId, userId |-> logs[i].userId,
      action |-> logs[i].action, at |-> logs[i].at,
      fileName |-> FileNameFor(fs, logs[i].fileId)]]

\* The log list returns: setAccessLogs(enrichedLogs); finally
\* setLoading(false); or the list threw.
loadFilesSetLogs(l, ok) ==
  /\ l \in 1..Len(lf)
  /\ lf[l].pc = "logsResp"
  /\ IF ok
       THEN /\ accessLogs' = [accessLogs EXCEPT
                  ![lf[l].user] = EnrichLogs(lf[l].logs, lf[l].userFiles)]
            /\ loading' = [loading EXCEPT ![lf[l].user] = FALSE]
            /\ lf' = EndLoad(lf, l)
            /\ toast' = <<>>
       ELSE /\ LoadFailed(l)
            /\ UNCHANGED accessLogs
  /\ opened' = NoOp
  /\ UNCHANGED <<adminVars, qc, backendVars, uploadingFiles, nextEntry,
                 refreshTrigger, effectRan, files, totalStorage, formVars,
                 hf, hd>>

(***************************************************************************)
(* FileManager: handleDownload, handleView, handleDelete                   *)
(***************************************************************************)
\* handleDownload / handleView on the i-th file shown: await
\* logFileAccess(file.id, action), window.open(file.publicUrl), loadFiles().
OpenFile(u, i, action, ok) ==
  /\ i \in 1..Len(files[u])
  /\ CanStartLoad
  /\ logFileAccess(ok, files[u][i].id, u, action)
  /\ opened' = [op |-> action, fileId |-> files[u][i].id, userId |-> u]
  /\ lf' = StartLoad(lf, u)
  /\ loading' = [loading EXCEPT ![u] = TRUE]
  /\ toast' = <<>>
  /\ UNCHANGED <<adminVars, qc, storage, dbFiles, dbQuotas, uploadingFiles,
                 nextEntry, refreshTrigger, effectRan, files, totalStorage,
                 accessLogs, formVars, hf, hd>>

handleDownload(u, i, ok) == OpenFile(u, i, "download", ok)

handleView(u, i, ok) == OpenFile(u, i, "view", ok)

\* handleDelete with the storage removal left out: after the log entry the
\* record is deleted.
handleDeleteStartRecordFirst(d, u, i, ok) ==
  /\ hd[d].pc = "idle"
  /\ i \in 1..Len(files[u])
  /\ logFileAccess(ok, files[u][i].id, u, "delete")
  /\ hd' = [hd EXCEPT ![d] = [pc |-> "dbDelete", user |-> u,
                              file |-> files[u][i], ok |-> TRUE]]
  /\ toast' = <<>>
  /\ opened' = NoOp
  /\ UNCHANGED <<adminVars, qc, storage, dbFiles, dbQuotas, uploadingFiles,
                 nextEntry, refreshTrigger, effectRan, managerVars,
                 formVars, hf, lf>>

\* handleDelete on the i-th file shown: await logFileAccess(file.id,
\* 'delete'), then blink.storage.remove(file.storagePath) is sent.
handleDeleteStart(d, u, i, ok) ==
  /\ hd[d].pc = "idle"
  /\ i \in 1..Len(files[u])
  /\ logFileAccess(ok, files[u][i].id, u, "delete")
  /\ hd' = [hd EXCEPT ![d] = [pc |-> "remove", user |-> u,
                              file |-> files[u][i], ok |-> TRUE]]
  /\ toast' = <<>>
  /\ opened' = NoOp
  /\ UNCHANGED <<adminVars, qc, storage, dbFiles, dbQuotas, uploadingFiles,
                 nextEntry, refreshTrigger, effectRan, managerVars,
                 formVars, hf, lf>>

\* The catch block of handleDelete.
DeleteFailed(d) ==
  /\ toast' = <<Toast(hd[d].user, "Delete failed", hd[d].file.fileName)>>
  /\ hd' = [hd EXCEPT ![d] = IdleDelete]

\* The storage removal with its failure ignored: the handler goes on to the
\* record.
handleDeleteRemoveAnyway(d, ok) ==
  /\ hd[d].pc = "remove"
  /\ storage' =
       IF ok THEN [p \in DOMAIN storage \ {hd[d].file.storagePath} |->
                     storage[p]]
       ELSE storage
  /\ hd' = [hd EXCEPT ![d].pc = "dbDelete"]
  /\ toast' = <<>>
  /\ opened' = NoOp
  /\ UNCHANGED <<adminVars, qc, dbFiles, dbLogs, dbQuotas, clock,
                 uploadingFiles, nextEntry, refreshTrigger, effectRan,
                 managerVars, formVars, hf, lf>>

\* await blink.storage.remove(file.storagePath)
handleDeleteRemove(d, ok) ==
  /\ hd[d].pc = "remove"
  /\ IF ok
       THEN /\ storage' = [p \in DOMAIN storage \ {hd[d].file.storagePath} |->
                             storage[p]]
            /\ hd' = [hd EXCEPT ![d].pc = "dbDelete"]
            /\ toast' = <<>>
       ELSE /\ DeleteFailed(d)
            /\ UNCHANGED storage
  /\ opened' = NoOp
  /\ UNCHANGED <<adminVars, qc, dbFiles, dbLogs, dbQuotas, clock,
                 uploadingFiles, nextEntry, refreshTrigger, effectRan,
                 managerVars, formVars, hf, lf>>

\* blink.db.files.delete(file.id) takes effect at the backend.
handleDeleteRecord(d, ok, cascade) ==
  /\ hd[d].pc = "dbDelete"
  /\ DeleteRecord(hd[d].file.id, ok, cascade)
  /\ hd' = [hd EXCEPT ![d].pc = "deleted", ![d].ok = ok]
  /\ toast' = <<>>
  /\ opened' = NoOp
  /\ UNCHANGED <<adminVars, qc, storage, dbQuotas, clock,
                 uploadingFiles, nextEntry, refreshTrigger, effectRan,
                 managerVars, formVars, hf, lf>>

\* The delete returns: setFiles(prev => prev.filter(...)),
\* setTotalStorage(prev => prev - file.fileSize), toast, loadFiles().
handleDeleteDone(d) ==
  /\ hd[d].pc = "deleted"
  /\ LET u == hd[d].user
         Keep(f) == f.id # hd[d].file.id
     IN IF hd[d].ok
        THEN /\ CanStartLoad
             /\ files' = [files EXCEPT ![u] = SelectSeq(@, Keep)]
             /\ totalStorage' =
                  [totalStorage EXCEPT ![u] = @ - hd[d].file.fileSize]
             /\ toast' = <<Toast(u, "File deleted", hd[d].file.fileName)>>
             /\ lf' = StartLoad(lf, u)
             /\ loading' = [loading EXCEPT ![u] = TRUE]
             /\ hd' = [hd EXCEPT ![d] = IdleDelete]
        ELSE /\ DeleteFailed(d)
             /\ UNCHANGED <<files, totalStorage, lf, loading>>
  /\ opened' = NoOp
  /\ UNCHANGED <<adminVars, qc, backendVars, uploadingFiles, nextEntry,
                 refreshTrigger, effectRan, accessLogs, formVars, hf>>

(***************************************************************************)
(* AdminDashboard: loadAdminData                                           *)
(***************************************************************************)
\* blink.db.files.list({ orderBy: { uploadedAt: 'desc' }, limit: 1000 })
ListAllFiles == Take(OrderDesc(dbFiles), ADMIN_FILE_LIMIT)

\* blink.db.fileAccessLogs.list({ orderBy: { accessedAt: 'desc' }, limit: 500 })
ListAllLogs == Take(OrderDesc(dbLogs), ADMIN_LOG_LIMIT)

StartAdminLoad(alv) ==
  [alv EXCEPT ![FirstFree(alv)] = [IdleAdminLoad EXCEPT !.pc = "files"]]

\* files.forEach(file => { ... }): the statistics map after the files, in
\* insertion order.
RECURSIVE StatsOfFiles(_, _)
StatsOfFiles(fs, stats) ==
  IF fs = <<>> THEN stats
  ELSE LET f == Head(fs)
           known == \E i \in 1..Len(stats) : stats[i].userId = f.userId
           withUser == IF known THEN stats
                       ELSE Append(stats, [userId |-> f.userId, fileCount |-> 0,
                                           totalSize |-> 0,
                                           lastActivity |-> f.at])
           counted == [i \in 1..Len(withUser) |->
                         IF withUser[i].userId = f.userId
                         THEN [withUser[i] EXCEPT
                                 !.fileCount = @ + 1,
                                 !.totalSize = @ + f.fileSize,
                                 !.lastActivity = IF f.at > @ THEN f.at ELSE @]
                         ELSE withUser[i]]
       IN StatsOfFiles(Tail(fs), counted)

\* logs.forEach(log => { ... }): activity from the logs.
RECURSIVE StatsOfLogs(_, _)
StatsOfLogs(logs, stats) ==
  IF logs = <<>> THEN stats
  ELSE LET l == Head(logs)
           seen == [i \in 1..Len(stats) |->
                      IF /\ stats[i].userId = l.userId
                         /\ l.at > stats[i].lastActivity
                      THEN [stats[i] EXCEPT !.lastActivity = l.at]
                      ELSE stats[i]]
       IN StatsOfLogs(Tail(logs), seen)

\* Array.prototype.sort by lastActivity descending (stable).
RECURSIVE InsertStat(_, _)
InsertStat(sorted, st) ==
  IF sorted = <<>> THEN <<st>>
  ELSE IF st.lastActivity > Head(sorted).lastActivity
       THEN <<st>> \o sorted
       ELSE <<Head(sorted)>> \o InsertStat(Tail(sorted), st)

RECURSIVE SortStats(_, _)
SortStats(stats, sorted) ==
  IF stats = <<>> THEN sorted
  ELSE SortStats(Tail(stats), InsertStat(sorted, Head(stats)))

\* The statistics in the order of the map, without the sort.
UserStatsUnsorted(fs, logs) == StatsOfLogs(logs, StatsOfFiles(fs, <<>>))

UserStatsOf(fs, logs) ==
  SortStats(StatsOfLogs(logs, StatsOfFiles(fs, <<>>)), <<>>)

\* The catch and finally blocks of loadAdminData.
AdminLoadFailed(a) ==
  /\ toast' = <<Toast(Admin, "Error loading admin data", <<>>)>>
  /\ adminLoading' = FALSE
  /\ al' = [al EXCEPT ![a] = IdleAdminLoad]

\* blink.db.files.list(...) takes effect at the backend.
loadAdminDataList(a) ==
  /\ al[a].pc = "files"
  /\ al' = [al EXCEPT ![a].pc = "filesResp", ![a].files = ListAllFiles]
  /\ toast' = <<>>
  /\ opened' = NoOp
  /\ UNCHANGED <<backendVars, uploadingFiles, nextEntry, refreshTrigger,
                 effectRan, managerVars, formVars, hf, lf, hd, allFiles,
                 allLogs, userStats, adminLoading, ad, qc>>

\* The list returns: setAllFiles(files), and the log query is sent; or the
\* list threw.
loadAdminDataSetFiles(a, ok) ==
  /\ al[a].pc = "filesResp"
  /\ IF ok
       THEN /\ allFiles' = al[a].files
            /\ al' = [al EXCEPT ![a].pc = "logs"]
            /\ toast' = <<>> /\ UNCHANGED <<adminLoading>>
       ELSE /\ AdminLoadFailed(a)
            /\ UNCHANGED allFiles
  /\ opened' = NoOp
  /\ UNCHANGED <<backendVars, uploadingFiles, nextEntry, refreshTrigger,
                 effectRan, managerVars, formVars, hf, lf, hd, allLogs,
                 userStats, ad, qc>>

\* blink.db.fileAccessLogs.list(...) takes effect at the backend.
loadAdminDataLogs(a) ==
  /\ al[a].pc = "logs"
  /\ al' = [al EXCEPT ![a].pc = "logsResp", ![a].logs = ListAllLogs]
  /\ toast' = <<>>
  /\ opened' = NoOp
  /\ UNCHANGED <<backendVars, uploadingFiles, nextEntry, refreshTrigger,
                 effectRan, managerVars, formVars, hf, lf, hd, allFiles,
                 allLogs, userStats, adminLoading, ad, qc>>

\* The log list returns: setAllLogs(enrichedLogs), setUserStats(...); finally
\* setLoading(false); or the list threw.
loadAdminDataSetLogs(a, ok) ==
  /\ al[a].pc = "logsResp"
  /\ IF ok
       THEN /\ allLogs' = EnrichLogs(al[a].logs, al[a].files)
            /\ userStats' = UserStatsOf(al[a].files, al[a].logs)
            /\ adminLoading' = FALSE
            /\ al' = [al EXCEPT ![a] = IdleAdminLoad]
            /\ toast' = <<>>
       ELSE /\ AdminLoadFailed(a)
            /\ UNCHANGED <<allLogs, userStats>>
  /\ opened' = NoOp
  /\ UNCHANGED <<backendVars, uploadingFiles, nextEntry, refreshTrigger,
                 effectRan, managerVars, formVars, hf, lf, hd, allFiles, ad,
                 qc>>

(***************************************************************************)
(* AdminDashboard: the file action buttons                                 *)
(***************************************************************************)
\* The download button: onClick={() => window.open(file.publicUrl, '_blank')}
adminDownload(i) ==
  /\ i \in 1..Len(allFiles)
  /\ opened' = [op |-> "admin_download", fileId |-> allFiles[i].id,
                userId |-> Admin]
  /\ toast' = <<>>
  /\ UNCHANGED <<backendVars, uploadingFiles, nextEntry, refreshTrigger,
                 effectRan, managerVars, formVars, hf, lf, hd, adminVars,
                 qc>>

\* blink.db.fileAccessLogs.create({...}) of the admin handlers, outside any
\* logFileAccess: a failure reaches the handler's catch.
adminLog(fileId, action) ==
  /\ dbLogs' = dbLogs \cup {LogEntry(clock, fileId, Admin, action, clock)}
  /\ clock' = clock + 1

\* handleView: the admin_view entry is created, then window.open; a failure
\* is only written to the console.
adminView(i, ok) ==
  /\ i \in 1..Len(allFiles)
  /\ IF ok
       THEN /\ adminLog(allFiles[i].id, "admin_view")
            /\ opened' = [op |-> "admin_view", fileId |-> allFiles[i].id,
                          userId |-> Admin]
       ELSE opened' = NoOp /\ UNCHANGED <<dbLogs, clock>>
  /\ toast' = <<>>
  /\ UNCHANGED <<storage, dbFiles, dbQuotas, uploadingFiles, nextEntry,
                 refreshTrigger, effectRan, managerVars, formVars, hf, lf,
                 hd, adminVars, qc>>

\* The catch block of handleAdminDelete.
AdminDeleteFailed(a) ==
  /\ toast' = <<Toast(Admin, "Delete failed", ad[a].file.fileName)>>
  /\ ad' = [ad EXCEPT ![a] = IdleDelete]

\* An admin delete that goes on to the storage removal although its log
\* write failed.
handleAdminDeleteStartUnlogged(a, i, confirmed, ok) ==
  /\ ad[a].pc = "idle"
  /\ i \in 1..Len(allFiles)
  /\ IF ~confirmed
       THEN toast' = <<>> /\ UNCHANGED <<dbLogs, clock, ad>>
       ELSE /\ IF ok THEN adminLog(allFiles[i].id, "admin_delete")
                  ELSE UNCHANGED <<dbLogs, clock>>
            /\ ad' = [ad EXCEPT ![a] = [pc |-> "remove", user |-> Admin,
                                        file |-> allFiles[i], ok |-> TRUE]]
            /\ toast' = <<>>
  /\ opened' = NoOp
  /\ UNCHANGED <<storage, dbFiles, dbQuotas, uploadingFiles, nextEntry,
                 refreshTrigger, effectRan, managerVars, formVars, hf, lf,
                 hd, allFiles, allLogs, userStats, adminLoading, al, qc>>

\* handleAdminDelete on the i-th file shown: confirm(...), then the
\* admin_delete entry is created and blink.storage.remove is sent.
handleAdminDeleteStart(a, i, confirmed, ok) ==
  /\ ad[a].pc = "idle"
  /\ i \in 1..Len(allFiles)
  /\ IF ~confirmed
       THEN toast' = <<>> /\ UNCHANGED <<dbLogs, clock, ad>>
       ELSE IF ok
       THEN /\ adminLog(allFiles[i].id, "admin_delete")
            /\ ad' = [ad EXCEPT ![a] = [pc |-> "remove", user |-> Admin,
                                        file |-> allFiles[i], ok |-> TRUE]]
            /\ toast' = <<>>
       ELSE /\ toast' = <<Toast(Admin, "Delete failed", allFiles[i].fileName)>>
            /\ UNCHANGED <<dbLogs, clock, ad>>
  /\ opened' = NoOp
  /\ UNCHANGED <<storage, dbFiles, dbQuotas, uploadingFiles, nextEntry,
                 refreshTrigger, effectRan, managerVars, formVars, hf, lf,
                 hd, allFiles, allLogs, userStats, adminLoading, al, qc>>

\* await blink.storage.remove(file.storagePath)
handleAdminDeleteRemove(a, ok) ==
  /\ ad[a].pc = "remove"
  /\ IF ok
       THEN /\ storage' = [p \in DOMAIN storage \ {ad[a].file.storagePath} |->
                             storage[p]]
            /\ ad' = [ad EXCEPT ![a].pc = "dbDelete"]
            /\ toast' = <<>>
       ELSE /\ AdminDeleteFailed(a)
            /\ UNCHANGED storage
  /\ opened' = NoOp
  /\ UNCHANGED <<dbFiles, dbLogs, dbQuotas, clock, uploadingFiles, nextEntry,
                 refreshTrigger, effectRan, managerVars, formVars, hf, lf,
                 hd, allFiles, allLogs, userStats, adminLoading, al, qc>>

\* blink.db.files.delete(file.id) takes effect at the backend.
handleAdminDeleteRecord(a, ok, cascade) ==
  /\ ad[a].pc = "dbDelete"
  /\ DeleteRecord(ad[a].file.id, ok, cascade)
  /\ ad' = [ad EXCEPT ![a].pc = "deleted", ![a].ok = ok]
  /\ toast' = <<>>
  /\ opened' = NoOp
  /\ UNCHANGED <<storage, dbQuotas, clock, uploadingFiles, nextEntry,
                 refreshTrigger, effectRan, managerVars, formVars, hf, lf,
                 hd, allFiles, allLogs, userStats, adminLoading, al, qc>>

\* The delete returns: setAllFiles(prev => prev.filter(...)), toast,
\* loadAdminData().
handleAdminDeleteDone(a) ==
  /\ ad[a].pc = "deleted"
  /\ LET Keep(f) == f.id # ad[a].file.id
     IN IF ad[a].ok
        THEN /\ FreeSlots(al) # {}
             /\ allFiles' = SelectSeq(allFiles, Keep)
             /\ toast' = <<Toast(Admin, "File deleted", ad[a].file.fileName)>>
             /\ al' = StartAdminLoad(al)
             /\ adminLoading' = TRUE
             /\ ad' = [ad EXCEPT ![a] = IdleDelete]
        ELSE /\ AdminDeleteFailed(a)
             /\ UNCHANGED <<allFiles, al, adminLoading>>
  /\ opened' = NoOp
  /\ UNCHANGED <<backendVars, uploadingFiles, nextEntry, refreshTrigger,
                 effectRan, managerVars, formVars, hf, lf, hd, allLogs,
                 userStats, qc>>

(***************************************************************************)
(* DatabaseService: storage quota operations                               *)
(***************************************************************************)
\* The quota query without its where clause.
QuotaRowsOfAnyUser(u) == 1..Len(dbQuotas)

\* blink.db.userStorageQuotas.list({ where: { userId }, limit: 1 }): the rows
\* the query can return as quotas[0] (no orderBy is given).
QuotaRows(u) == {i \in 1..Len(dbQuotas) : dbQuotas[i].userId = u}

DefaultQuota(u) ==
  [userId |-> u, quotaBytes |-> DEFAULT_QUOTA_BYTES, usedBytes |-> 0,
   createdAt |-> clock, updatedAt |-> clock]

\* static isWithinQuota(usedBytes, quotaBytes, newFileSize)
isWithinQuota(usedBytes, quotaBytes, newFileSize) ==
  (usedBytes + newFileSize) <= quotaBytes

\* A caller calls getUserStorageQuota(userId): the list query is sent.
getUserStorageQuota(c, u) ==
  /\ qc[c].pc \in {"idle", "returned", "failed"}
  /\ qc' = [qc EXCEPT ![c] = [IdleQuota EXCEPT !.pc = "list", !.user = u,
                                               !.kind = "get"]]
  /\ toast' = <<>>
  /\ opened' = NoOp
  /\ UNCHANGED <<backendVars, uploadingFiles, nextEntry, refreshTrigger,
                 effectRan, managerVars, formVars, hf, lf, hd, adminVars>>

\* A caller calls updateStorageUsage(userId, usedBytes), which starts with
\* this.getUserStorageQuota(userId).
updateStorageUsage(c, u, usedBytes) ==
  /\ qc[c].pc \in {"idle", "returned", "failed"}
  /\ qc' = [qc EXCEPT ![c] = [IdleQuota EXCEPT !.pc = "list", !.user = u,
                                               !.kind = "update",
                                               !.usedBytes = usedBytes]]
  /\ toast' = <<>>
  /\ opened' = NoOp
  /\ UNCHANGED <<backendVars, uploadingFiles, nextEntry, refreshTrigger,
                 effectRan, managerVars, formVars, hf, lf, hd, adminVars>>

\* What getUserStorageQuota does once it has its record.
QuotaFound(c, row) ==
  [qc EXCEPT ![c].result = row,
             ![c].pc = IF qc[c].kind = "get" THEN "returned" ELSE "update"]

\* The list query takes effect: quotas.length === 0 leads to the create,
\* otherwise quotas[0] is returned.
quotaList(c, ok) ==
  /\ qc[c].pc = "list"
  /\ IF ~ok THEN qc' = [qc EXCEPT ![c].pc = "failed"]
       ELSE IF QuotaRows(qc[c].user) = {}
            THEN qc' = [qc EXCEPT ![c].pc = "create"]
            ELSE \E i \in QuotaRows(qc[c].user) :
                   qc' = QuotaFound(c, dbQuotas[i])
  /\ toast' = <<>>
  /\ opened' = NoOp
  /\ UNCHANGED <<backendVars, uploadingFiles, nextEntry, refreshTrigger,
                 effectRan, managerVars, formVars, hf, lf, hd, adminVars>>

\* blink.db.userStorageQuotas.create({ userId, quotaBytes: 1073741824,
\* usedBytes: 0, ... }) takes effect and its record is returned; it throws
\* when the call fails or user_id, the table's primary key, is taken.
quotaCreate(c, ok) ==
  /\ qc[c].pc = "create"
  /\ IF ok /\ QuotaRows(qc[c].user) = {}
       THEN /\ dbQuotas' = Append(dbQuotas, DefaultQuota(qc[c].user))
            /\ qc' = QuotaFound(c, DefaultQuota(qc[c].user))
            /\ clock' = clock + 1
       ELSE /\ qc' = [qc EXCEPT ![c].pc = "failed"]
            /\ UNCHANGED <<dbQuotas, clock>>
  /\ toast' = <<>>
  /\ opened' = NoOp
  /\ UNCHANGED <<storage, dbFiles, dbLogs, uploadingFiles, nextEntry,
                 refreshTrigger, effectRan, managerVars, formVars, hf, lf,
                 hd, adminVars>>

\* blink.db.userStorageQuotas.update(quota.userId, { usedBytes, updatedAt })
quotaUpdate(c, ok) ==
  /\ qc[c].pc = "update"
  /\ IF ok
       THEN LET key == qc[c].result.userId
                Updated(row) == [row EXCEPT !.usedBytes = qc[c].usedBytes,
                                            !.updatedAt = clock]
            IN /\ dbQuotas' = [i \in 1..Len(dbQuotas) |->
                                 IF dbQuotas[i].userId = key
                                 THEN Updated(dbQuotas[i]) ELSE dbQuotas[i]]
               /\ qc' = [qc EXCEPT ![c].pc = "returned",
                                   ![c].result = Updated(qc[c].result)]
               /\ clock' = clock + 1
       ELSE /\ qc' = [qc EXCEPT ![c].pc = "failed"]
            /\ UNCHANGED <<dbQuotas, clock>>
  /\ toast' = <<>>
  /\ opened' = NoOp
  /\ UNCHANGED <<storage, dbFiles, dbLogs, uploadingFiles, nextEntry,
                 refreshTrigger, effectRan, managerVars, formVars, hf, lf,
                 hd, adminVars>>

(***************************************************************************)
(* FileManager: the search box                                             *)
(***************************************************************************)
SearchTerms ==
  { <<>>, <<"i","n","v","o","i","c","e">>, <<"I","N","V">>, <<".","t","x","t">>,
    <<"p","d","f","x">> }

\* onChange={(e) => setSearchTerm(e.target.value)}
setSearchTerm(u, term) ==
  /\ searchTerm[u] # term
  /\ searchTerm' = [searchTerm EXCEPT ![u] = term]
  /\ toast' = <<>>
  /\ opened' = NoOp
  /\ UNCHANGED <<backendVars, uploadingFiles, nextEntry, refreshTrigger,
                 effectRan, managerVars, hf, lf, hd, adminVars, qc, login,
                 guard>>

UpperCase == <<"A","B","C","D","E","F","G","H","I","J","K","L","M","N","O",
               "P","Q","R","S","T","U","V","W","X","Y","Z">>
LowerCase == <<"a","b","c","d","e","f","g","h","i","j","k","l","m","n","o",
               "p","q","r","s","t","u","v","w","x","y","z">>

\* String.prototype.toLowerCase
toLowerCase(str) ==
  [i \in 1..Len(str) |->
     IF \E k \in 1..26 : UpperCase[k] = str[i]
     THEN LowerCase[CHOOSE k \in 1..26 : UpperCase[k] = str[i]]
     ELSE str[i]]

\* Whether str starts with part.
RECURSIVE StartsWith(_, _)
StartsWith(str, part) ==
  IF part = <<>> THEN TRUE
  ELSE IF str = <<>> THEN FALSE
  ELSE Head(str) = Head(part) /\ StartsWith(Tail(str), Tail(part))

\* String.prototype.includes: the search string is looked for from each
\* position on.
RECURSIVE includes(_, _)
includes(str, part) ==
  IF StartsWith(str, part) THEN TRUE
  ELSE IF str = <<>> THEN FALSE
  ELSE includes(Tail(str), part)

\* The filter without the toLowerCase() calls.
FileMatchesCase(file, term) == includes(file.fileName, term)

\* files.filter(file =>
\*   file.fileName.toLowerCase().includes(searchTerm.toLowerCase()))
FileMatches(file, term) ==
  includes(toLowerCase(file.fileName), toLowerCase(term))

filteredFiles(u) ==
  LET Test(file) == FileMatches(file, searchTerm[u])
  IN SelectSeq(files[u], Test)

(***************************************************************************)
(* EmailLogin                                                              *)
(***************************************************************************)
\* The texts typed into the email field and into the code field (of at most
\* six characters: maxLength={6}).
EmailTexts == { <<>>, <<" "," ">>, <<"a","@","b",".","c">> }
DEMO_CODE == <<"1","2","3","4","5","6">>
CodeTexts ==
  { <<>>, <<" "," "," ">>, DEMO_CODE, <<"6","5","4","3","2","1">>,
    <<"1","2","3","4","5">>, <<" ","1","2","3","4","5">> }

\* String.prototype.trim
RECURSIVE trimStart(_)
trimStart(str) ==
  IF str # <<>> /\ Head(str) = " " THEN trimStart(Tail(str)) ELSE str

RECURSIVE trimEnd(_)
trimEnd(str) ==
  IF str # <<>> /\ str[Len(str)] = " "
  THEN trimEnd(SubSeq(str, 1, Len(str) - 1))
  ELSE str

trim(str) == trimEnd(trimStart(str))

\* A step of the login page: nothing else changes.
LoginStep ==
  /\ toast' = <<>>
  /\ opened' = NoOp
  /\ UNCHANGED <<backendVars, uploadingFiles, nextEntry, refreshTrigger,
                 effectRan, managerVars, hf, lf, hd, adminVars, qc,
                 searchTerm, guard>>

\* The fields and buttons of the page are enabled: disabled={loading}.
LoginEnabled == login.page = "shown" /\ ~login.loading

\* onChange={(e) => setEmail(e.target.value)}
setEmail(text) ==
  /\ LoginEnabled /\ login.step = "email"
  /\ login.email # text
  /\ login' = [login EXCEPT !.email = text]
  /\ LoginStep

\* onChange={(e) => setVerificationCode(e.target.value)}
setVerificationCode(text) ==
  /\ LoginEnabled /\ login.step = "verify"
  /\ login.verificationCode # text
  /\ login' = [login EXCEPT !.verificationCode = text]
  /\ LoginStep

\* handleSendCode up to its await.
handleSendCode ==
  /\ LoginEnabled /\ login.step = "email"
  /\ login' =
       IF trim(login.email) = <<>>
       THEN [login EXCEPT !.error = "Please enter your email address"]
       ELSE [login EXCEPT !.loading = TRUE, !.error = "", !.pc = "send"]
  /\ LoginStep

\* The timer of handleSendCode fires: setSuccess, setStep('verify'), finally
\* setLoading(false).
handleSendCodeDone ==
  /\ login.page = "shown" /\ login.pc = "send"
  /\ login' = [login EXCEPT !.success = "Verification code sent",
                            !.step = "verify", !.loading = FALSE,
                            !.pc = "idle"]
  /\ LoginStep

\* handleVerifyCode up to its await.
handleVerifyCode ==
  /\ LoginEnabled /\ login.step = "verify"
  /\ login' =
       IF trim(login.verificationCode) = <<>>
       THEN [login EXCEPT !.error = "Please enter the verification code"]
       ELSE [login EXCEPT !.loading = TRUE, !.error = "", !.pc = "verify"]
  /\ LoginStep

\* The check of a verifyCode that accepts every code of six characters.
handleVerifyCodeDoneAnySix ==
  /\ login.page = "shown" /\ login.pc = "verify"
  /\ login' =
       IF Len(login.verificationCode) = 6
       THEN [login EXCEPT !.success = "Email verified successfully",
                          !.reloadTimer = TRUE, !.loading = FALSE,
                          !.pc = "idle"]
       ELSE [login EXCEPT !.error = "Invalid verification code",
                          !.loading = FALSE, !.pc = "idle"]
  /\ LoginStep

\* The timer of handleVerifyCode fires: the code is compared with '123456';
\* finally setLoading(false).
handleVerifyCodeDone ==
  /\ login.page = "shown" /\ login.pc = "verify"
  /\ login' =
       IF login.verificationCode = DEMO_CODE
       THEN [login EXCEPT !.success = "Email verified successfully",
                          !.reloadTimer = TRUE, !.loading = FALSE,
                          !.pc = "idle"]
       ELSE [login EXCEPT !.error = "Invalid verification code",
                          !.loading = FALSE, !.pc = "idle"]
  /\ LoginStep

\* setTimeout(() => window.location.reload(), 1500) fires: the page, and the
\* component with it, is gone.
reload ==
  /\ login.page = "shown" /\ login.reloadTimer
  /\ login' = [login EXCEPT !.page = "reloaded", !.reloadTimer = FALSE]
  /\ LoginStep

\* The Change Email button: onClick={() => setStep('email')}
changeEmail ==
  /\ LoginEnabled /\ login.step = "verify"
  /\ login' = [login EXCEPT !.step = "email"]
  /\ LoginStep

\* handleResendCode up to its await.
handleResendCode ==
  /\ LoginEnabled /\ login.step = "verify"
  /\ login' = [login EXCEPT !.loading = TRUE, !.error = "", !.pc = "resend"]
  /\ LoginStep

\* The timer of handleResendCode fires.
handleResendCodeDone ==
  /\ login.page = "shown" /\ login.pc = "resend"
  /\ login' = [login EXCEPT !.success = "New verification code sent",
                            !.loading = FALSE, !.pc = "idle"]
  /\ LoginStep

(***************************************************************************)
(* AdminGuard                                                              *)
(***************************************************************************)
ADMIN_EMAILS ==
  { <<"a","d","m","i","n","@","e","x","a","m","p","l","e",".","c","o","m">>,
    <<"k","a","i",".","j","i","a","b","o",".","f","e","n","g","@","g","m","a",
      "i","l",".","c","o","m">> }

ADMIN_PART == <<"a","d","m","i","n">>
ADMIN_DOMAIN == <<"@","y","o","u","r","d","o","m","a","i","n",".","c","o",
                  "m">>

\* The accounts that may be signed in.
Accounts ==
  { [email |-> <<"a","d","m","i","n","@","e","x","a","m","p","l","e",".","c",
                 "o","m">>],
    [email |-> <<"k","a","i",".","j","i","a","b","o",".","f","e","n","g","@",
                 "g","m","a","i","l",".","c","o","m">>],
    [email |-> <<"c","l","i","e","n","t","@","e","x","a","m","p","l","e",".",
                 "c","o","m">>],
    [email |-> <<"s","y","s","a","d","m","i","n","@","c","o","r","p",".","i",
                 "o">>],
    [email |-> <<"e","v","e","@","y","o","u","r","d","o","m","a","i","n",".",
                 "c","o","m">>],
    [email |-> <<"A","d","m","i","n","@","E","x","a","m","p","l","e",".","c",
                 "o","m">>],
    NoAccount }

\* String.prototype.endsWith
endsWith(str, part) ==
  /\ Len(part) <= Len(str)
  /\ SubSeq(str, Len(str) - Len(part) + 1, Len(str)) = part

\* The guard with the list alone.
userIsAdminByList(email) == email \in ADMIN_EMAILS

\* ADMIN_EMAILS.includes(currentUser.email) ||
\* currentUser.email?.includes('admin') ||
\* currentUser.email?.endsWith('@yourdomain.com')
userIsAdmin(email) ==
  \/ email \in ADMIN_EMAILS
  \/ email # NoEmail /\ includes(email, ADMIN_PART)
  \/ email # NoEmail /\ endsWith(email, ADMIN_DOMAIN)

\* What AdminGuard renders.
GuardView ==
  IF guard.pc = "unmounted" THEN "none"
  ELSE IF guard.loading THEN "Checking Admin Access"
  ELSE IF ~guard.isAdmin THEN "Access Denied"
  ELSE "children"

\* A step of the admin switch: nothing else changes.
GuardStep ==
  /\ toast' = <<>>
  /\ opened' = NoOp
  /\ UNCHANGED <<backendVars, uploadingFiles, nextEntry, refreshTrigger,
                 effectRan, managerVars, hf, lf, hd, adminVars, qc,
                 searchTerm, login>>

\* The signed-in account switches to the admin view (setShowAdmin(true)):
\* AdminGuard is mounted and its effect calls checkAdminStatus.
onAdminToggle(account) ==
  /\ guard.pc = "unmounted"
  /\ guard' = InitialGuard(account)
  /\ GuardStep

\* blink.auth.me() returns the account or throws; finally setLoading(false).
checkAdminStatus(ok) ==
  /\ guard.pc = "check"
  /\ guard' =
       IF ok
       THEN [guard EXCEPT !.user = guard.account,
                          !.isAdmin = userIsAdmin(guard.account.email),
                          !.loading = FALSE, !.pc = "done"]
       ELSE [guard EXCEPT !.isAdmin = FALSE, !.loading = FALSE,
                          !.pc = "done"]
  /\ GuardStep

\* Back to Dashboard / the header toggle: setShowAdmin(false) unmounts the
\* guard.
onBack ==
  /\ guard.pc # "unmounted"
  /\ guard' = NoGuard
  /\ GuardStep

(***************************************************************************)
(* Next-state relations                                                    *)
(***************************************************************************)
\* A hosted call returns (TRUE) or throws (FALSE).
Outcomes == BOOLEAN

\* Date.now() has a value left within the bound.
ClockLeft == clock < MaxClock

\* The files waiting in the queues of the runs R.
RECURSIVE QueuedFiles(_)
QueuedFiles(R) ==
  IF R = {} THEN 0
  ELSE LET r == CHOOSE x \in R : TRUE
       IN Len(hf[r].queue) + QueuedFiles(R \ {r})

\* The progress entries left within the bound suffice for the files queued
\* and those of batch.
EntriesLeft(batch) ==
  nextEntry - 1 + QueuedFiles(RunIds) + Len(batch) <= MaxEntries

\* The upload component, used by alice, who picks any of the batches.
UploadNext ==
  \/ \E r \in RunIds, b \in Batches :
       EntriesLeft(b) /\ handleFilesStart(r, "alice", b)
  \/ \E r \in RunIds, ok \in Outcomes : handleFilesAuth(r, ok)
  \/ \E r \in RunIds : uploadProgress(r)
  \/ \E r \in RunIds, ok \in Outcomes : handleFilesUpload(r, ok)
  \/ \E r \in RunIds, ok \in Outcomes : ClockLeft /\ handleFilesCreate(r, ok)
  \/ \E r \in RunIds, ok \in Outcomes : ClockLeft /\ handleFilesLog(r, ok)
  \/ \E id \in 1..MaxEntries : removeUploadingFile("alice", id)

\* One handleFiles run at a time, in which a user of us with no upload yet
\* picks the files of batch; oks are the outcomes of the hosted calls.
UploadOnce(us, batch, oks) ==
  \/ \E u \in us :
       uploadingFiles[u] = <<>> /\ handleFilesStart(1, u, batch)
  \/ \E ok \in oks : handleFilesAuth(1, ok)
  \/ \E ok \in oks : handleFilesUpload(1, ok)
  \/ \E ok \in oks : ClockLeft /\ handleFilesCreate(1, ok)
  \/ \E ok \in oks : ClockLeft /\ handleFilesLog(1, ok)

\* The loadFiles calls in flight go on.
LoadNext(oks) ==
  \/ \E l \in LoadIds : loadFilesList(l)
  \/ \E l \in LoadIds, ok \in oks : loadFilesSetFiles(l, ok)
  \/ \E l \in LoadIds : loadFilesLogs(l)
  \/ \E l \in LoadIds, ok \in oks : loadFilesSetLogs(l, ok)

\* The download and view buttons of the file managers of the users us.
OpenNext(us, oks) ==
  \/ \E u \in us, i \in 1..MaxClock, ok \in oks :
       ClockLeft /\ handleDownload(u, i, ok)
  \/ \E u \in us, i \in 1..MaxClock, ok \in oks :
       ClockLeft /\ handleView(u, i, ok)

\* The delete button of the file managers of the users us.
DeleteNext(us, oks) ==
  \/ \E d \in DeleteIds, u \in us, i \in 1..MaxClock, ok \in oks :
       ClockLeft /\ handleDeleteStart(d, u, i, ok)
  \/ \E d \in DeleteIds, ok \in oks : handleDeleteRemove(d, ok)
  \/ \E d \in DeleteIds, ok \in oks, cascade \in Cascades :
       handleDeleteRecord(d, ok, cascade)
  \/ \E d \in DeleteIds : handleDeleteDone(d)

\* The file managers of the users us.
ManagerNext(us, oks) ==
  \/ \E u \in us : refreshEffect(u)
  \/ LoadNext(oks)
  \/ OpenNext(us, oks)
  \/ DeleteNext(us, oks)

\* loadAdminData goes on.
AdminLoadNext(oks) ==
  \/ \E a \in AdminLoadIds : loadAdminDataList(a)
  \/ \E a \in AdminLoadIds, ok \in oks : loadAdminDataSetFiles(a, ok)
  \/ \E a \in AdminLoadIds : loadAdminDataLogs(a)
  \/ \E a \in AdminLoadIds, ok \in oks : loadAdminDataSetLogs(a, ok)

\* The view button of the admin dashboard.
AdminViewNext(oks) ==
  \E i \in 1..MaxClock, ok \in oks : ClockLeft /\ adminView(i, ok)

\* The delete button of the admin dashboard.
AdminDeleteNext(oks) ==
  \/ \E a \in AdminDeleteIds, i \in 1..MaxClock, confirmed \in BOOLEAN,
        ok \in oks :
       ClockLeft /\ handleAdminDeleteStart(a, i, confirmed, ok)
  \/ \E a \in AdminDeleteIds, ok \in oks : handleAdminDeleteRemove(a, ok)
  \/ \E a \in AdminDeleteIds, ok \in oks, cascade \in Cascades :
       handleAdminDeleteRecord(a, ok, cascade)
  \/ \E a \in AdminDeleteIds : handleAdminDeleteDone(a)

\* The admin dashboard.
AdminNext(oks) ==
  \/ AdminLoadNext(oks)
  \/ \E i \in 1..MaxClock : adminDownload(i)
  \/ AdminViewNext(oks)
  \/ AdminDeleteNext(oks)

\* The callers of the DatabaseService quota operations: the calls in the
\* slots cs, for the users us; oks are the outcomes of the hosted calls.
QuotaCalls(cs, us, oks) ==
  \/ \E c \in cs, u \in us : getUserStorageQuota(c, u)
  \/ \E c \in cs, u \in us, b \in UsageValues : updateStorageUsage(c, u, b)
  \/ \E c \in cs, ok \in oks : quotaList(c, ok)
  \/ \E c \in cs, ok \in oks : ClockLeft /\ quotaCreate(c, ok)
  \/ \E c \in cs, ok \in oks : ClockLeft /\ quotaUpdate(c, ok)

QuotaNext == QuotaCalls(QuotaIds, Users, Outcomes)

\* The search box of the file manager of user u.
SearchNext(u) == \E term \in SearchTerms : setSearchTerm(u, term)

\* The login page of a visitor who is not signed in.
LoginNext ==
  \/ \E text \in EmailTexts : setEmail(text)
  \/ \E text \in CodeTexts : setVerificationCode(text)
  \/ handleSendCode
  \/ handleSendCodeDone
  \/ handleVerifyCode
  \/ handleVerifyCodeDone
  \/ reload
  \/ changeEmail
  \/ handleResendCode
  \/ handleResendCodeDone

\* The admin switch of a signed-in account.
GuardNext ==
  \/ \E account \in Accounts : onAdminToggle(account)
  \/ \E ok \in Outcomes : checkAdminStatus(ok)
  \/ onBack

\* The whole portal.
Next ==
  \/ LoginNext
  \/ GuardNext
  \/ UploadNext
  \/ ManagerNext(Users, Outcomes)
  \/ \E u \in Users : SearchNext(u)
  \/ AdminNext(Outcomes)
  \/ QuotaNext

Spec == Init /\ [][Next]_vars

\* The upload component alone: one user, two handleFiles runs in flight.
UploadSpec == Init /\ [][UploadNext]_vars

\* The file manager of a user who uploads one file.
ManagerSpecNext ==
  \/ UploadOnce({"alice"}, <<SmallFile>>, Outcomes)
  \/ ManagerNext({"alice"}, Outcomes)

ManagerSpec == Init /\ [][ManagerSpecNext]_vars

\* A user uploads one file, the admin views files in the dashboard and
\* opens the file manager.
ActivitySpecNext ==
  \/ UploadOnce({"alice"}, <<SmallFile>>, Outcomes)
  \/ AdminLoadNext(Outcomes)
  \/ AdminViewNext(Outcomes)
  \/ refreshEffect(Admin)
  \/ LoadNext(Outcomes)

ActivitySpec == Init /\ [][ActivitySpecNext]_vars

\* Runs in which every hosted call returns: the users upload one file each,
\* a user works with the file manager and the admin with the dashboard.
AuditSpecNext ==
  \/ UploadOnce(Users, <<SmallFile>>, {TRUE})
  \/ ManagerNext({"alice"}, {TRUE})
  \/ AdminNext({TRUE})

AuditSpec == Init /\ [][AuditSpecNext]_vars

\* The users upload one file each and reload their file managers; one of
\* them deletes files.
IsolationSpecNext ==
  \/ UploadOnce(Users, <<SmallFile>>, Outcomes)
  \/ \E u \in Users : refreshEffect(u)
  \/ LoadNext(Outcomes)
  \/ DeleteNext({"alice"}, Outcomes)

IsolationSpec == Init /\ [][IsolationSpecNext]_vars

\* A user uploads one file; the user and the admin load their lists, whose
\* calls return, and delete files, whose calls may throw.
DeleteSpecNext ==
  \/ UploadOnce({"alice"}, <<SmallFile>>, {TRUE})
  \/ refreshEffect("alice")
  \/ LoadNext({TRUE})
  \/ DeleteNext({"alice"}, Outcomes)
  \/ AdminLoadNext({TRUE})
  \/ AdminDeleteNext(Outcomes)

DeleteSpec == Init /\ [][DeleteSpecNext]_vars

\* A user uploads a file, loads the file manager and deletes, all calls
\* returning, while quota operations are called for the user.
FrameSpecNext ==
  \/ UploadOnce({"alice"}, <<SmallFile>>, {TRUE})
  \/ refreshEffect("alice")
  \/ LoadNext({TRUE})
  \/ OpenNext({"alice"}, {TRUE})
  \/ DeleteNext({"alice"}, {TRUE})
  \/ QuotaCalls({1}, {"alice"}, Outcomes)

FrameSpec == Init /\ [][FrameSpecNext]_vars

\* The login page alone.
LoginSpec == Init /\ [][LoginNext]_vars

\* The login page of a visitor and the admin switch of a signed-in account.
AccessSpecNext ==
  \/ LoginNext
  \/ GuardNext

AccessSpec == Init /\ [][AccessSpecNext]_vars

\* A user picks a file that is too large and one that is not, reloads the
\* file manager and deletes; the calls of the upload and of the reloads
\* may throw.  The effect and the loadFiles calls in flight are not held up
\* for ever: the runtime runs a pending effect and every query is answered.
RefreshSpecNext ==
  \/ UploadOnce({"alice"}, <<BigFile, SmallFile>>, Outcomes)
  \/ refreshEffect("alice")
  \/ LoadNext(Outcomes)
  \/ DeleteNext({"alice"}, {TRUE})

RefreshSpec ==
  /\ Init /\ [][RefreshSpecNext]_vars
  /\ WF_vars(refreshEffect("alice"))
  /\ WF_vars(LoadNext(Outcomes))

\* The hosted calls of the run in flight return, with either outcome.
BatchReturns ==
  \/ \E ok \in Outcomes : handleFilesAuth(1, ok)
  \/ \E ok \in Outcomes : handleFilesUpload(1, ok)
  \/ \E ok \in Outcomes : handleFilesCreate(1, ok)
  \/ \E ok \in Outcomes : handleFilesLog(1, ok)

\* The clock bound leaves room for every file of the batch.
BatchClockLeft(batch) == clock + 2 * Len(batch) <= MaxBatchClock

\* Alice picks one batch after the other, each handled to its end, and
\* removes progress entries; every hosted call returns or throws, none
\* hangs.
BatchSpecNext ==
  \/ \E b \in Batches :
       EntriesLeft(b) /\ BatchClockLeft(b) /\ handleFilesStart(1, "alice", b)
  \/ BatchReturns
  \/ uploadProgress(1)
  \/ \E id \in 1..MaxEntries : removeUploadingFile("alice", id)

BatchSpec == Init /\ [][BatchSpecNext]_vars /\ WF_vars(BatchReturns)

\* The quota operations of DatabaseService alone.
QuotaSpec == Init /\ [][QuotaNext]_vars

\* Two callers (two browser tabs) of the quota operations for one user;
\* the hosted service never fails.
QuotaRaceSpecNext == QuotaCalls(QuotaIds, {"alice"}, {TRUE})

QuotaRaceSpec == Init /\ [][QuotaRaceSpecNext]_vars

\* A user uploads two files, reloads the file manager and types in the
\* search box.
SearchSpecNext ==
  \/ UploadOnce({"alice"}, <<SmallFile, NotesFile>>, Outcomes)
  \/ refreshEffect("alice")
  \/ LoadNext(Outcomes)
  \/ SearchNext("alice")

SearchSpec == Init /\ [][SearchSpecNext]_vars

\* File records and log entries left by earlier sessions: two files of
\* alice and one of the admin, the log entries of their uploads, and views
\* of the first file by alice and by the admin.
StoredFiles ==
  { FileRecord(1, "alice", SmallFile, 1), FileRecord(3, Admin, SmallFile, 3),
    FileRecord(5, "alice", NotesFile, 5) }

StoredLogs ==
  { LogEntry(2, 1, "alice", "upload", 2), LogEntry(4, 3, Admin, "upload", 4),
    LogEntry(6, 5, "alice", "upload", 6), LogEntry(7, 1, "alice", "view", 7),
    LogEntry(8, 1, Admin, "view", 8) }

\* The admin dashboard is opened on a database that holds any of these
\* records and entries (the rest was deleted or never written).
StatsInit ==
  /\ dbFiles \in SUBSET StoredFiles
  /\ dbLogs \in SUBSET StoredLogs
  /\ storage = [p \in {f.storagePath : f \in dbFiles} |->
                  (CHOOSE f \in dbFiles : f.storagePath = p).fileSize]
  /\ dbQuotas = <<>>
  /\ clock = 9
  /\ ClientInit

\* loadAdminData on mount, whose calls may throw.
StatsSpecNext == AdminLoadNext(Outcomes)

StatsSpec == StatsInit /\ [][StatsSpecNext]_vars

\* The portal opened by a user who uploaded Invoice.pdf in an earlier
\* session: the object, its record and the log entry of the upload exist.
ReturningInit ==
  /\ storage = [p \in {storagePathOf("alice", InvoicePdf)} |-> SmallFile.size]
  /\ dbFiles = {FileRecord(0, "alice", SmallFile, 0)}
  /\ dbLogs = {LogEntry(0, 0, "alice", "upload", 0)}
  /\ dbQuotas = <<>>
  /\ clock = 1
  /\ ClientInit

\* The user uploads a file called Invoice.pdf again, reloads the file
\* manager and deletes.  Every hosted call returns.
ReturningSpecNext ==
  \/ UploadOnce({"alice"}, <<SmallFile>>, {TRUE})
  \/ refreshEffect("alice")
  \/ LoadNext({TRUE})
  \/ DeleteNext({"alice"}, {TRUE})

ReturningSpec == ReturningInit /\ [][ReturningSpecNext]_vars

\* The decimal digits of n, for the names of numbered files.
Digits == <<"0","1","2","3","4","5","6","7","8","9">>

RECURSIVE Decimal(_)
Decimal(n) ==
  IF n < 10 THEN <<Digits[n + 1]>>
  ELSE Decimal(n \div 10) \o <<Digits[(n % 10) + 1]>>

\* The k-th of a series of files of 10 MiB: "<k>.bin".
FillFile(k) ==
  [name |-> Decimal(k) \o <<".","b","i","n">>, size |-> MAX_FILE_SIZE]

\* A user uploads files of 10 MiB with different names, each in a run of
\* its own after the one before, and every hosted call returns.
FillSpecNext ==
  \/ /\ Cardinality(dbFiles) < MaxFill
     /\ handleFilesStart(1, "alice", <<FillFile(Cardinality(dbFiles) + 1)>>)
  \/ handleFilesAuth(1, TRUE)
  \/ handleFilesUpload(1, TRUE)
  \/ handleFilesCreate(1, TRUE)
  \/ handleFilesLog(1, TRUE)

FillSpec == Init /\ [][FillSpecNext]_vars

(***************************************************************************)
(* Properties of the upload component                                      *)
(***************************************************************************)
\* The files run r takes off its queue in a step.
Consumed(r) ==
  SubSeq(hf[r].queue, 1, Len(hf[r].queue) - Len(hf'[r].queue))

\* blink.auth.me() threw in the step: run r ends before its loop.
AuthThrew(r) == hf[r].pc = "auth" /\ hf'[r].pc = "idle" /\ toast' = <<>>

\* Run r goes through the head of its loop in the step.
LoopStep(r) == hf'[r] # hf[r] /\ ~AuthThrew(r)

TooLargeToasts(ts) == {i \in DOMAIN ts : ts[i].title = "File too large"}

\* C1: a run the handler reports as successful (the step that marks the
\* entry completed and shows "Upload successful") leaves exactly one file
\* record for the file and exactly one 'upload' log entry with its id.
C1_SuccessfulUploadRecorded ==
  [][\A r \in RunIds :
       (hf[r].pc = "log" /\ hf'[r] # hf[r]) =>
         /\ \E i \in DOMAIN toast' : toast'[i].title = "Upload successful"
         /\ Cardinality({f \in dbFiles' : f.id = hf[r].fileId}) = 1
         /\ Cardinality({l \in dbLogs' : /\ l.fileId = hf[r].fileId
                                         /\ l.action = "upload"}) = 1]_vars

\* In the step, run r rejects each file of at least min bytes it takes off
\* its queue: a "File too large" toast names it and it is not uploaded.
RejectsFrom(r, min) ==
  LoopStep(r) =>
    \A k \in 1..Len(Consumed(r)) :
      Consumed(r)[k].size >= min =>
        /\ \E i \in TooLargeToasts(toast') :
             /\ toast'[i].name = Consumed(r)[k].name
             /\ toast'[i].user = hf[r].user
        /\ ~(hf'[r].pc = "upload" /\ k = Len(Consumed(r)))

\* No storage upload, record create or log create is made for a file of at
\* least min bytes: no run is at such a call, no object, record or progress
\* entry has that size, and every log entry is about a record.
NoCallFrom(min) ==
  /\ \A r \in RunIds :
       hf[r].pc \in {"upload", "create", "log"} => hf[r].cur.size < min
  /\ \A p \in DOMAIN storage : storage[p] < min
  /\ \A f \in dbFiles : f.fileSize < min
  /\ \A u \in Users : \A i \in DOMAIN uploadingFiles[u] :
       uploadingFiles[u][i].file.size < min
  /\ \A l \in dbLogs : \E f \in dbFiles : f.id = l.fileId

\* C2 as stated: a file of 10 MiB or more is rejected and no storage
\* upload, record create or log create is made for it.
C2_AtOrAboveLimitRejected ==
  [][(\A r \in RunIds : RejectsFrom(r, MAX_FILE_SIZE))
     /\ NoCallFrom(MAX_FILE_SIZE)']_vars

\* C2 amended: a file of more than 10 MiB is rejected and no storage
\* upload, record create or log create is made for it.
C2_AboveLimitRejected ==
  [][(\A r \in RunIds : RejectsFrom(r, MAX_FILE_SIZE + 1))
     /\ NoCallFrom(MAX_FILE_SIZE + 1)']_vars

\* A file over the limit was rejected and the next file of the batch is
\* being uploaded.
C2_Witness ==
  \E r \in RunIds :
    /\ hf[r].pc = "upload"
    /\ \E i \in TooLargeToasts(toast) : toast[i].name = BigFile.name

\* C3: a file of at most 10 MiB is never rejected as too large: when a run
\* takes it off its queue, no "File too large" toast is raised for it, it
\* gets a progress entry and its storage upload is started.
C3_UpToLimitAdmitted ==
  [][\A r \in RunIds :
       LoopStep(r) =>
         LET taken == Consumed(r)
             over == {k \in 1..Len(taken) : taken[k].size > MAX_FILE_SIZE}
         IN /\ Cardinality(TooLargeToasts(toast')) = Cardinality(over)
            /\ \A k \in 1..Len(taken) :
                 taken[k].size <= MAX_FILE_SIZE =>
                   /\ k = Len(taken)
                   /\ hf'[r].pc = "upload"
                   /\ hf'[r].cur = taken[k]
                   /\ \E i \in DOMAIN uploadingFiles'[hf[r].user] :
                        LET e == uploadingFiles'[hf[r].user][i]
                        IN /\ e.id = hf'[r].entryId
                           /\ e.file = taken[k]
                           /\ e.status = "uploading"]_vars

\* A file of exactly 10 MiB is being uploaded to storage.
C3_Witness ==
  \E r \in RunIds :
    hf[r].pc = "upload" /\ hf[r].cur.size = MAX_FILE_SIZE

(***************************************************************************)
(* Properties of the file manager                                          *)
(***************************************************************************)
\* C4: once the delete handler has completed for a record and no delete or
\* listing is in flight any more, the file list shown to the user holds no
\* record that is gone from the database (a listing made after the delete
\* does not return the record, and the list shown no longer has it).
C4_DeletedRecordNotShown ==
  ((\A d \in DeleteIds : hd[d].pc = "idle") /\ lf = <<>>) =>
    \A u \in Users : \A i \in DOMAIN files[u] : files[u][i] \in dbFiles

\* The entry e of a joined activity list has the file name of the record it
\* refers to if that record exists, the placeholder if it does not.
NamedAfterRecord(e) ==
  IF \E f \in dbFiles : f.id = e.fileId
  THEN \A f \in dbFiles : f.id = e.fileId => e.fileName = f.fileName
  ELSE e.fileName = UNKNOWN_FILE

\* C5: when the log entries are joined with fetched file records that are
\* still what the file query returns (file manager and admin dashboard),
\* an entry whose record exists gets that record's file name and an entry
\* whose record does not exist gets 'Unknown file'.
C5_LogEntriesNamed ==
  [][/\ \A l \in DOMAIN lf :
          (/\ lf[l].pc = "logsResp"
           /\ accessLogs'[lf[l].user] # accessLogs[lf[l].user]
           /\ lf[l].userFiles = ListUserFiles(lf[l].user)) =>
            \A i \in DOMAIN accessLogs'[lf[l].user] :
               NamedAfterRecord(accessLogs'[lf[l].user][i])
     /\ \A a \in AdminLoadIds :
          (/\ al[a].pc = "logsResp"
           /\ allLogs' # allLogs
           /\ al[a].files = ListAllFiles) =>
            \A i \in DOMAIN allLogs' : NamedAfterRecord(allLogs'[i])]_vars

(***************************************************************************)
(* Properties of the quota operations                                      *)
(***************************************************************************)
\* The quota records of user u.
QuotaRecordsOf(u) == {i \in 1..Len(dbQuotas) : dbQuotas[i].userId = u}

\* C6: a getUserStorageQuota that returns for a user with no quota record
\* returns a record of that user with quotaBytes = 1073741824 and
\* usedBytes = 0, which is then the user's one record; one that returns for
\* a user with a record creates nothing and returns that record, the same
\* record an earlier lookup holds if no update came in between.
C6_DefaultQuotaPersists ==
  [][\A c \in QuotaIds :
       (qc[c].kind = "get" /\ qc[c].pc # "returned" /\ qc'[c].pc = "returned")
       => LET u == qc[c].user
              r == qc'[c].result
          IN /\ r.userId = u
             /\ IF QuotaRecordsOf(u) = {}
                THEN /\ r.quotaBytes = 1073741824
                     /\ r.usedBytes = 0
                     /\ dbQuotas' = Append(dbQuotas, r)
                ELSE /\ dbQuotas' = dbQuotas
                     /\ Cardinality(QuotaRecordsOf(u)) = 1
                     /\ \E i \in QuotaRecordsOf(u) : r = dbQuotas[i]
                     /\ \A c2 \in QuotaIds \ {c} :
                          (/\ qc[c2].pc = "returned"
                           /\ qc[c2].user = u
                           /\ qc[c2].result.updatedAt = r.updatedAt)
                          => qc[c2].result = r]_vars

\* Two lookups for the same user have returned the same record, the
\* default one, and it is the only record in the table.
C6_Witness ==
  /\ \A c \in QuotaIds : qc[c].pc = "returned" /\ qc[c].kind = "get"
  /\ \A c \in QuotaIds : qc[c].user = "alice" /\ qc[c].result = dbQuotas[1]
  /\ Len(dbQuotas) = 1
  /\ dbQuotas[1].quotaBytes = DEFAULT_QUOTA_BYTES
  /\ dbQuotas[1].usedBytes = 0

\* quotaBytes of user u: of the quota record, or the default without one.
QuotaBytesOf(u) ==
  IF QuotaRecordsOf(u) = {} THEN DEFAULT_QUOTA_BYTES
  ELSE dbQuotas[CHOOSE i \in QuotaRecordsOf(u) : TRUE].quotaBytes

\* The sum of fileSize over the records of S with ids from lo to hi.
RECURSIVE SizeOfRecords(_, _, _)
SizeOfRecords(S, lo, hi) ==
  IF {f \in S : lo <= f.id /\ f.id <= hi} = {} THEN 0
  ELSE IF lo = hi
       THEN LET f == CHOOSE x \in S : x.id = lo
            IN f.fileSize + SizeOfRecords(S \ {f}, lo, hi)
       ELSE SizeOfRecords(S, lo, (lo + hi) \div 2)
            + SizeOfRecords(S, (lo + hi) \div 2 + 1, hi)

\* C8: the sizes of a user's file records never sum to more than the
\* user's quotaBytes (1 GiB by default).
C8_WithinQuota ==
  \A u \in Users :
    SizeOfRecords({f \in dbFiles : f.userId = u}, 1, clock) <= QuotaBytesOf(u)

(***************************************************************************)
(* Properties of the search box                                            *)
(***************************************************************************)
\* part occurs in str at some position.
IsSubstring(part, str) ==
  \E k \in 0..(Len(str) - Len(part)) :
    \A j \in 1..Len(part) : str[k + j] = part[j]

\* C7: the files displayed are exactly the loaded files whose lower-cased
\* name contains the lower-cased search term, in the order loaded.
C7_SearchFilter ==
  \A u \in Users :
    LET Shown(file) ==
          IsSubstring(toLowerCase(searchTerm[u]), toLowerCase(file.fileName))
    IN filteredFiles(u) = SelectSeq(files[u], Shown)

\* Two files are loaded and the term "invoice" displays Invoice.pdf alone.
C7_Witness ==
  /\ Len(files["alice"]) = 2
  /\ searchTerm["alice"] = <<"i","n","v","o","i","c","e">>
  /\ Len(filteredFiles("alice")) = 1
  /\ filteredFiles("alice")[1].fileName = InvoicePdf

(***************************************************************************)
(* Properties of the access log and of the users' lists                    *)
(***************************************************************************)
\* The action kinds that record the operation op.
KindsOf(op) ==
  IF op = "admin_download" THEN {"download", "admin_download"} ELSE {op}

\* A log entry records that user u did an operation of kinds on the file.
Logged(fileId, u, kinds) ==
  \E l \in dbLogs : l.fileId = fileId /\ l.userId = u /\ l.action \in kinds

\* C9: every operation carried out on a file has its log entry: a file
\* opened for download or view, a record whose upload run has ended, and a
\* record whose deletion has returned.
C9_OperationsLogged ==
  /\ opened # NoOp => Logged(opened.fileId, opened.userId, KindsOf(opened.op))
  /\ \A f \in dbFiles :
       (\A r \in RunIds : hf[r].fileId # f.id) =>
         Logged(f.id, f.userId, {"upload"})
  /\ \A d \in DeleteIds :
       (hd[d].pc = "deleted" /\ hd[d].ok) =>
         Logged(hd[d].file.id, hd[d].user, {"delete"})
  /\ \A a \in AdminDeleteIds :
       (ad[a].pc = "deleted" /\ ad[a].ok) =>
         Logged(ad[a].file.id, Admin, {"admin_delete"})

\* C10: the file list and the activity list of a user's file manager hold
\* only records and log entries whose userId is that user's id.
C10_UserIsolation ==
  \A u \in Users :
    /\ \A i \in DOMAIN files[u] : files[u][i].userId = u
    /\ \A i \in DOMAIN accessLogs[u] : accessLogs[u][i].userId = u

\* Both users have a record, each file manager shows its user's file and
\* one shows its user's activity.
C10_Witness ==
  /\ \A u \in Users : \E f \in dbFiles : f.userId = u
  /\ \A u \in Users : files[u] # <<>>
  /\ \E u \in Users : accessLogs[u] # <<>>

(***************************************************************************)
(* Properties of the delete handlers                                       *)
(***************************************************************************)
\* C11: the access log is append-only: no step of the portal removes or
\* changes a log entry that exists; the set of entries only grows.
C11_LogAppendOnly == [][dbLogs \subseteq dbLogs']_vars

\* The step ends the storage removal of the delete in slot h (before) and
\* leaves the object in storage: the removal failed.
RemovalFailed(h, hNext) ==
  /\ h.pc = "remove"
  /\ hNext.pc # "remove"
  /\ h.file.storagePath \in DOMAIN storage'

\* C12 as stated: if the removal of the storage object fails, the delete
\* handler still goes on to delete the file record.
C12_RecordDeletedAfterFailedRemoval ==
  [][/\ \A d \in DeleteIds :
          RemovalFailed(hd[d], hd'[d]) => hd'[d].pc = "dbDelete"
     /\ \A a \in AdminDeleteIds :
          RemovalFailed(ad[a], ad'[a]) => ad'[a].pc = "dbDelete"]_vars

\* The handler in slot h stops at the failed step: no call of it is left,
\* 'Delete failed' is shown for the file and the records are as they were.
DeleteStopped(h, hNext) ==
  /\ hNext = IdleDelete
  /\ toast' = <<Toast(h.user, "Delete failed", h.file.fileName)>>
  /\ dbFiles' = dbFiles
  /\ dbLogs' = dbLogs

\* C12, amended: if the removal of the storage object fails, the delete
\* handler (user and admin) stops: the file record is not deleted, the log
\* entry written before stays and 'Delete failed' is shown.
C12_FailedRemovalStopsDelete ==
  [][/\ \A d \in DeleteIds :
          RemovalFailed(hd[d], hd'[d]) => DeleteStopped(hd[d], hd'[d])
     /\ \A a \in AdminDeleteIds :
          RemovalFailed(ad[a], ad'[a]) => DeleteStopped(ad[a], ad'[a])]_vars

\* A user's delete has stopped at its failed storage removal: 'Delete
\* failed' is shown, the record and the stored object are still there and
\* so is the 'delete' entry.
C12_Witness ==
  \E f \in dbFiles :
    /\ toast = <<Toast(f.userId, "Delete failed", f.fileName)>>
    /\ f.storagePath \in DOMAIN storage
    /\ \E l \in dbLogs : l.fileId = f.id /\ l.action = "delete"
    /\ \A d \in DeleteIds : hd[d].pc = "idle"

\* The delete handlers in flight before and after the step, with the kind
\* of log entry they write: 'delete' for a user, 'admin_delete' for the admin.
DeleteSlots ==
  {<<hd[d], hd'[d], "delete">> : d \in DeleteIds} \cup
  {<<ad[a], ad'[a], "admin_delete">> : a \in AdminDeleteIds}

\* The step writes the log entry of the delete s, and nothing else.
DeleteLogged(s) ==
  \E l \in dbLogs' \ dbLogs :
    /\ l.fileId = s[2].file.id
    /\ l.userId = s[2].user
    /\ l.action = s[3]
    /\ dbLogs' = dbLogs \cup {l}

CallEnded(r) ==
  hf[r].pc \in {"upload", "create", "log"} /\ hf'[r] # hf[r]

\* The call that ends in the step failed: the object is not stored, the
\* record is not created, the log entry is not written.
CallFailed(r) ==
  /\ CallEnded(r)
  /\ LET path == storagePathOf(hf[r].user, hf[r].cur.name)
     IN \/ /\ hf[r].pc = "upload"
           /\ (path \notin DOMAIN storage' \/ storage'[path] # hf[r].cur.size)
        \/ hf[r].pc = "create" /\ dbFiles' = dbFiles
        \/ hf[r].pc = "log" /\ dbLogs' = dbLogs

\* The step shows 'Upload failed' for the file of run r.
FailureShown(r) ==
  \E i \in DOMAIN toast' :
    toast'[i] = Toast(hf[r].user, "Upload failed", hf[r].cur.name)

\* No call of run r is made twice for a file: a call that ended is followed
\* by the next call for the same file or by the loop's next file, which
\* gets a progress entry with an id not used before.
NoRetry(r) ==
  CallEnded(r) =>
    \/ /\ hf'[r].entryId = hf[r].entryId /\ hf'[r].cur = hf[r].cur
       /\ hf'[r].queue = hf[r].queue
       /\ <<hf[r].pc, hf'[r].pc>> \in
            {<<"upload", "create">>, <<"create", "log">>}
    \/ /\ hf'[r].pc = "upload"
       /\ hf'[r].entryId = nextEntry /\ nextEntry' = nextEntry + 1
       /\ Len(hf'[r].queue) < Len(hf[r].queue)
    \/ hf'[r] = IdleRun

\* C14: a failure of the storage upload, of the record create or of the
\* 'upload' log create shows a failure notification for that file, and no
\* call is made a second time for a file.
C14_FailuresShownNoRetry ==
  [][\A r \in RunIds :
       /\ CallFailed(r) => FailureShown(r)
       /\ NoRetry(r)]_vars

\* The path clients/<userId>/<fileName> of the file of run r.
ClientPath(r) == <<"clients", hf[r].user, hf[r].cur.name>>

\* The step stores the file of run r at its path, and nothing else.
Stored(r) ==
  /\ DOMAIN storage' = DOMAIN storage \cup {ClientPath(r)}
  /\ storage'[ClientPath(r)] = hf[r].cur.size
  /\ \A p \in DOMAIN storage \ {ClientPath(r)} : storage'[p] = storage[p]

\* The step creates the record of the file of run r, with the path and the
\* public URL of the object stored, and nothing else.
RecordCreated(r) ==
  \E f \in dbFiles' \ dbFiles :
    /\ dbFiles' = dbFiles \cup {f}
    /\ f.id = hf'[r].fileId
    /\ f.userId = hf[r].user
    /\ f.fileName = hf[r].cur.name /\ f.fileSize = hf[r].cur.size
    /\ f.storagePath = ClientPath(r) /\ f.publicUrl = ClientPath(r)

\* The step writes the 'upload' entry of the record of run r, and nothing
\* else.
UploadLogged(r) ==
  \E l \in dbLogs' \ dbLogs :
    /\ dbLogs' = dbLogs \cup {l}
    /\ l.fileId = hf[r].fileId /\ l.userId = hf[r].user
    /\ l.action = "upload"

\* C17: for each accepted file the effects come in the order storage upload
\* to clients/<userId>/<fileName>, record create with the URL of the object,
\* 'upload' log entry: the record create is sent only when the upload of
\* that file has succeeded and the log write only when the record has been
\* created, and objects, records and entries appear in no other step.
C17_UploadOrder ==
  [][/\ \A r \in RunIds :
          /\ (hf'[r].pc = "create" /\ hf[r].pc # "create") =>
                /\ hf[r].pc = "upload" /\ Stored(r)
                /\ hf'[r].cur = hf[r].cur /\ hf'[r].user = hf[r].user
                /\ dbFiles' = dbFiles /\ dbLogs' = dbLogs
          /\ (hf'[r].pc = "log" /\ hf[r].pc # "log") =>
                /\ hf[r].pc = "create" /\ RecordCreated(r)
                /\ hf'[r].cur = hf[r].cur /\ hf'[r].user = hf[r].user
                /\ storage' = storage /\ dbLogs' = dbLogs
     /\ storage' # storage =>
          \E r \in RunIds : hf[r].pc = "upload" /\ Stored(r)
     /\ dbFiles' # dbFiles =>
          \E r \in RunIds : hf[r].pc = "create" /\ RecordCreated(r)
     /\ dbLogs' # dbLogs =>
          \E r \in RunIds :
            /\ hf[r].pc = "log" /\ UploadLogged(r)
            /\ \E f \in dbFiles : f.id = hf[r].fileId
            /\ storage' = storage /\ dbFiles' = dbFiles]_vars

\* A file has been uploaded: its object is stored at the path of its
\* record, and the 'upload' entry was written after the record.
C17_Witness ==
  \E f \in dbFiles :
    /\ f.storagePath = <<"clients", "alice", InvoicePdf>>
    /\ f.storagePath \in DOMAIN storage
    /\ \E l \in dbLogs :
         l.fileId = f.id /\ l.action = "upload" /\ l.at > f.at

RunsInFlight == {r \in RunIds : hf[r].pc \in {"upload", "create", "log"}}

\* The progress entries shown as uploading.
EntriesUploading ==
  {<<u, i>> \in Users \X (1..MaxEntries + 1) :
     /\ i \in DOMAIN uploadingFiles[u]
     /\ uploadingFiles[u][i].status = "uploading"}

\* C19 as stated: over all file-select and drop events, at most one file of
\* the upload component is in flight at any moment.
C19_OneFileAtATime == Cardinality(RunsInFlight) <= 1

\* The step starts the storage upload of a file of run r.
UploadStarts(r) ==
  /\ hf'[r].pc = "upload"
  /\ hf[r].pc # "upload" \/ hf'[r].entryId # hf[r].entryId

\* C19, amended: the files of one file-select or drop event are processed
\* one at a time: the upload of a file of a run starts only when the run has
\* no file at hand or ends the last step of its previous file, whose
\* progress entry is then completed or in error, and there are never more
\* entries uploading than runs in flight.  Runs of different events overlap.
C19_OneFileAtATimePerRun ==
  [][/\ \A r \in RunIds :
          UploadStarts(r) =>
            /\ hf[r].pc = "auth" \/ CallEnded(r)
            /\ Len(hf'[r].queue) < Len(hf[r].queue)
            /\ \A i \in DOMAIN uploadingFiles'[hf'[r].user] :
                 LET e == uploadingFiles'[hf'[r].user][i]
                 IN e.id = hf[r].entryId =>
                      e.status \in {"completed", "error"}
     /\ Cardinality(EntriesUploading') <= Cardinality(RunsInFlight')]_vars

\* A run has finished the first file of its event, whose entry is shown
\* as completed, and is uploading the second.
C19_Witness ==
  \E r \in RunIds :
    /\ hf[r].pc = "upload" /\ hf[r].cur = NotesFile
    /\ \E i \in DOMAIN uploadingFiles[hf[r].user] :
         /\ uploadingFiles[hf[r].user][i].status = "completed"
         /\ uploadingFiles[hf[r].user][i].id # hf[r].entryId

\* The ids of the progress entries of user u.
EntryIds(u) == {uploadingFiles[u][i].id : i \in DOMAIN uploadingFiles[u]}

\* Run r has a file at hand whose progress entry has been removed.
EntryRemoved(r) ==
  r \in RunsInFlight /\ hf[r].entryId \notin EntryIds(hf[r].user)

\* The step removes a progress entry of user u: only the list of u changes,
\* the other entries stay as they are and in their order.
RemovalIsLocal(u) ==
  Len(uploadingFiles'[u]) < Len(uploadingFiles[u]) =>
    /\ \E id \in EntryIds(u) :
         LET Keep(f) == f.id # id
         IN uploadingFiles'[u] = SelectSeq(uploadingFiles[u], Keep)
    /\ UNCHANGED <<hf, storage, dbFiles, dbLogs, refreshTrigger, nextEntry>>

\* A run whose entry has been removed can still take the successful step
\* of the call it is at, with the effect of that step.
StillRuns(r) ==
  /\ hf[r].pc = "upload" =>
       ENABLED (handleFilesUpload(r, TRUE) /\ Stored(r)
                /\ hf'[r].pc = "create")
  /\ hf[r].pc = "create" =>
       ENABLED (handleFilesCreate(r, TRUE) /\ RecordCreated(r)
                /\ hf'[r].pc = "log")
  /\ hf[r].pc = "log" =>
       ENABLED (/\ handleFilesLog(r, TRUE)
                /\ UploadLogged(r)
                /\ refreshTrigger'[hf[r].user] =
                     refreshTrigger[hf[r].user] + 1)

\* C20: removing the progress entry of an upload in flight only removes it
\* from the local list: the run is not aborted, its successful calls still
\* create the record and the 'upload' log entry and fire the completion
\* callback, and no later step brings back an entry that was removed.
C20_RemovalOnlyLocal ==
  [][/\ \A u \in Users : RemovalIsLocal(u)
     /\ \A r \in RunIds : EntryRemoved(r) => StillRuns(r)
     /\ \A r \in RunIds :
          EntryRemoved(r) /\ CallEnded(r) /\ hf[r].pc = "log" =>
            refreshTrigger'[hf[r].user] = refreshTrigger[hf[r].user] + 1
     /\ \A u \in Users :
          \A id \in 1..(nextEntry - 1) :
            id \notin EntryIds(u) => id \notin EntryIds(u)']_vars

\* The entry of a file was removed while its upload was in flight, and the
\* run has created the record of the file and is at its log write.
C20_Witness ==
  \E r \in RunIds :
    /\ EntryRemoved(r) /\ hf[r].pc = "log"
    /\ \E f \in dbFiles : f.id = hf[r].fileId

(***************************************************************************)
(* Properties of the handlers' error handling                              *)
(***************************************************************************)
\* blink.auth.me() failed at the start of run r: the run ends although a
\* file of its batch would have gone to the storage upload.
AuthFailed(r) ==
  /\ hf[r].pc = "auth"
  /\ hf'[r] = IdleRun
  /\ AfterRejected(hf[r].queue) # <<>>

\* The log write of a download, view or delete of the file manager failed:
\* the handler went on (file opened, storage removal sent) with no entry
\* written.
LogWriteFailed ==
  /\ dbLogs' = dbLogs
  /\ \/ opened' # NoOp /\ opened'.op \in {"download", "view"}
     \/ \E d \in DeleteIds : hd[d].pc = "idle" /\ hd'[d].pc = "remove"

\* The file query of a loadFiles call failed: the call ends where a
\* successful one goes on to the log query.
ListFailed ==
  \E l \in DOMAIN lf : lf[l].pc = "filesResp" /\ lf' = EndLoad(lf, l)

\* The step shows a failure notification.
FailureNotified ==
  \E i \in DOMAIN toast' :
    toast'[i].title \in {"Upload failed", "Error loading files",
                         "Delete failed", "Error loading admin data"}

\* C15: every failure of a hosted call inside a handler is caught by the
\* handler and shown as a notification, and the failed call is not made
\* again: a failed auth lookup, storage call or database call of the
\* upload, listing, download, view and delete handlers.
C15_FailuresCaughtAndShown ==
  [][/\ \A r \in RunIds :
          /\ (AuthFailed(r) \/ CallFailed(r)) => FailureNotified
          /\ NoRetry(r)
     /\ LogWriteFailed => FailureNotified
     /\ ListFailed => FailureNotified
     /\ \A d \in DeleteIds :
          RemovalFailed(hd[d], hd'[d]) =>
            FailureNotified /\ hd'[d] = IdleDelete]_vars

(***************************************************************************)
(* Properties of the quota records under uploads and deletes               *)
(***************************************************************************)
\* The step is the update of an updateStorageUsage call, which sets the
\* usedBytes of row i to the value passed and leaves its quotaBytes.
UsageUpdated(i) ==
  \E c \in QuotaIds :
    /\ qc[c].kind = "update" /\ qc[c].pc = "update"
    /\ qc'[c].pc = "returned"
    /\ dbQuotas[i].userId = qc[c].user
    /\ dbQuotas'[i].usedBytes = qc[c].usedBytes
    /\ dbQuotas'[i].quotaBytes = dbQuotas[i].quotaBytes

OwnedBy(F, u) ==
  LET Own(f) == f.userId = u
  IN SelectSeq(F, Own)

\* The timestamps of the files of F and the entries of L of user u.
ActivityOf(F, L, u) ==
  {F[i].at : i \in {j \in DOMAIN F : F[j].userId = u}}
    \cup {L[i].at : i \in {j \in DOMAIN L : L[j].userId = u}}

RECURSIVE SumCounts(_)
SumCounts(stats) ==
  IF stats = <<>> THEN 0 ELSE Head(stats).fileCount + SumCounts(Tail(stats))

\* stats are the statistics of the fetched files F and log entries L.
StatsAgree(F, L, stats) ==
  /\ \A i \in DOMAIN F :
       \E k \in DOMAIN stats :
         /\ stats[k].userId = F[i].userId
         /\ \A n \in DOMAIN stats :
              stats[n].userId = stats[k].userId => n = k
         /\ stats[k].fileCount = Len(OwnedBy(F, F[i].userId))
         /\ stats[k].totalSize = SumSizes(OwnedBy(F, F[i].userId))
         /\ stats[k].lastActivity \in ActivityOf(F, L, F[i].userId)
         /\ \A t \in ActivityOf(F, L, F[i].userId) :
              t <= stats[k].lastActivity
  /\ SumCounts(stats) = Len(F)
  /\ \A k \in 1..(Len(stats) - 1) :
       stats[k].lastActivity >= stats[k + 1].lastActivity

\* C21: the statistics that loadAdminData sets give, for every user with a
\* file fetched, the number and the total size of the user's files and the
\* latest timestamp of the user's files and log entries; their file counts
\* add up to the number of files fetched and they are sorted by
\* lastActivity descending.
C21_AdminStatistics ==
  [][\A a \in AdminLoadIds :
       al[a].pc = "logsResp" /\ al'[a].pc = "idle" /\ toast' = <<>> =>
         /\ StatsAgree(al[a].files, al[a].logs, userStats')
         /\ allFiles' = al[a].files]_vars

\* Statistics of two users are shown; the user shown first has two files
\* and a log entry later than the files, and is not the owner of the most
\* recent file.
C21_Witness ==
  /\ Len(userStats) = 2 /\ adminLoading = FALSE
  /\ userStats[1].fileCount = 2
  /\ userStats[1].totalSize = 2560
  /\ userStats[1].lastActivity = 7
  /\ userStats[2].lastActivity = 4
  /\ Len(allFiles) = 3

(***************************************************************************)
(* Properties of the email login                                           *)
(***************************************************************************)
VERIFIED == "Email verified successfully"
INVALID_CODE == "Invalid verification code"

\* The step is a submission of the code form: handleVerifyCode is called.
CodeSubmitted ==
  /\ login.step = "verify" /\ login.pc = "idle"
  /\ \/ login'.pc = "verify"
     \/ /\ login' # login
        /\ login' =
             [login EXCEPT !.error = "Please enter the verification code"]

\* The two-step machine of the login page, in which the submitted codes of
\* rejected, a set of codes other than '123456', are answered with the
\* invalid-code error.
LoginMachine(rejected) ==
  /\ login.step = "email" /\ login'.step = "verify" =>
       /\ login.pc = "send"
       /\ trim(login.email) # <<>>
  /\ login.step = "verify" /\ login'.step = "email" =>
       login' = [login EXCEPT !.step = "email"] /\ LoginEnabled
  /\ login'.success = VERIFIED /\ login.success # VERIFIED =>
       /\ login.step = "verify" /\ login'.step = "verify"
       /\ login.pc = "verify"
       /\ login.verificationCode = DEMO_CODE
       /\ login'.reloadTimer
  /\ login'.reloadTimer /\ ~login.reloadTimer =>
       login'.success = VERIFIED /\ login.success # VERIFIED
  /\ login'.page = "reloaded" /\ login.page = "shown" => login.reloadTimer
  /\ CodeSubmitted /\ login.verificationCode \in rejected =>
       login'.pc = "verify"
  /\ login.pc = "verify" /\ login'.pc = "idle" =>
       /\ login'.step = "verify"
       /\ login.verificationCode # DEMO_CODE =>
            /\ login'.error = INVALID_CODE
            /\ login'.success = login.success
            /\ login'.reloadTimer = login.reloadTimer
  /\ login.pc = "idle" => ~login.loading
  /\ login'.pc = "idle" => ~login'.loading

\* C22 as stated: every non-empty code other than '123456' yields the
\* invalid-code error.
C22_LoginMachine ==
  [][LoginMachine({c \in CodeTexts : c # <<>> /\ c # DEMO_CODE})]_vars

\* C22, amended: 'verify' is entered only from 'email' by a send-code
\* submission with an email that is non-empty after trimming; the only way
\* back is Change Email; success and the reload are reached only in
\* 'verify' with the code '123456'; any other code that is non-empty after
\* trimming yields the invalid-code error and stays at 'verify' (a code of
\* blanks is answered like an empty one); loading is false whenever no
\* handler runs.
C22_LoginMachineTrimmed ==
  [][LoginMachine({c \in CodeTexts : trim(c) # <<>> /\ c # DEMO_CODE})]_vars

\* At 'verify' the invalid-code error is shown for a code other than
\* '123456', after a return to 'email' and a second send.
C22_Witness ==
  /\ login.step = "verify" /\ login.pc = "idle"
  /\ login.error = INVALID_CODE
  /\ login.verificationCode = <<" ","1","2","3","4","5">>
  /\ login.success = "Verification code sent"

(***************************************************************************)
(* Properties of the admin switch                                          *)
(***************************************************************************)
\* The effect of the guard has ended and its lookup returned the account.
LookupReturned == guard.pc = "done" /\ guard.user = guard.account

\* The email has 'admin' in it or is of the domain '@yourdomain.com'.
MatchesPattern(email) ==
  /\ email # NoEmail
  /\ \/ IsSubstring(ADMIN_PART, email)
     \/ \E k \in 0..Len(email) :
          SubSeq(email, k + 1, Len(email)) = ADMIN_DOMAIN

\* C23 as stated: the dashboard is rendered only for an account whose email
\* is in ADMIN_EMAILS; every other account, and every account whose lookup
\* failed, gets Access Denied.
C23_AllowListOnly ==
  /\ GuardView = "children" =>
       LookupReturned /\ guard.account.email \in ADMIN_EMAILS
  /\ guard.pc = "done" /\ GuardView # "children" =>
       GuardView = "Access Denied"

\* C23, amended: once the check has ended, the guard renders the dashboard
\* exactly for an account whose lookup returned and whose email is in
\* ADMIN_EMAILS, contains 'admin' or ends with '@yourdomain.com', and
\* Access Denied for every other account and whenever the lookup failed;
\* until then it renders neither.
C23_AllowListOrPattern ==
  /\ GuardView = "children" <=>
       /\ LookupReturned
       /\ \/ guard.account.email \in ADMIN_EMAILS
          \/ MatchesPattern(guard.account.email)
  /\ GuardView = "Access Denied" <=>
       /\ guard.pc = "done"
       /\ ~ /\ LookupReturned
            /\ \/ guard.account.email \in ADMIN_EMAILS
               \/ MatchesPattern(guard.account.email)
  /\ guard.pc = "check" => GuardView = "Checking Admin Access"

\* The dashboard is rendered for an account that is not in ADMIN_EMAILS.
C23_Witness ==
  /\ GuardView = "children"
  /\ guard.account.email \notin ADMIN_EMAILS
  /\ IsSubstring(ADMIN_PART, guard.account.email)

(***************************************************************************)
(* Properties of the records and the objects they refer to                 *)
(***************************************************************************)
\* No upload and no delete is under way.
NoUploadOrDelete ==
  /\ \A r \in RunIds : hf[r].pc = "idle"
  /\ \A d \in DeleteIds : hd[d].pc = "idle"
  /\ \A a \in AdminDeleteIds : ad[a].pc = "idle"

\* C24: with every hosted call returning, after any sequence of completed
\* uploads and deletes every file record that exists refers to an object
\* that exists in storage at its storagePath.
C24_RecordsHaveObjects ==
  NoUploadOrDelete => \A f \in dbFiles : f.storagePath \in DOMAIN storage

(***************************************************************************)
(* Properties of overlapping loadFiles calls                               *)
(***************************************************************************)
\* Nothing of the file manager and the upload component of user u is under
\* way: no upload, no delete, no loadFiles call, and the effect has run for
\* the current refresh trigger.
Quiet(u) ==
  /\ \A r \in RunIds : hf[r].pc = "idle"
  /\ \A d \in DeleteIds : hd[d].pc = "idle"
  /\ lf = <<>>
  /\ effectRan[u] = refreshTrigger[u]

\* C25: once all loadFiles calls have finished and nothing else runs, the
\* file list, the total storage and the activity list shown are those of
\* the current database state of the user.
C25_LatestLoadWins ==
  Quiet("alice") =>
    /\ files["alice"] = ListUserFiles("alice")
    /\ totalStorage["alice"] = SumSizes(ListUserFiles("alice"))
    /\ accessLogs["alice"] =
         EnrichLogs(ListUserLogs("alice"), ListUserFiles("alice"))

(***************************************************************************)
(* Properties of the total storage shown                                   *)
(***************************************************************************)
\* C26: whenever no handler of the file manager of a user is in flight, the
\* total storage shown is the sum of the sizes of the files shown, and it
\* is not negative.
C26_TotalMatchesList ==
  \A u \in Users :
    Quiet(u) =>
      /\ totalStorage[u] = SumSizes(files[u])
      /\ totalStorage[u] >= 0

(***************************************************************************)
(* Properties of concurrent quota calls                                    *)
(***************************************************************************)
\* C27: for any interleaving of getUserStorageQuota and updateStorageUsage
\* calls for one user, at most one quota record of the user exists, every
\* call returns a record of the user (none ends with an exception), and no
\* step changes the quotaBytes of a record.
C27_QuotaCallsConcurrent ==
  [][/\ \A u \in Users : Cardinality(QuotaRows(u))' <= 1
     /\ \A c \in QuotaIds :
          /\ qc'[c].pc # "failed"
          /\ qc'[c].pc = "returned" => qc'[c].result.userId = qc'[c].user
     /\ \A i \in 1..Len(dbQuotas) :
          /\ i <= Len(dbQuotas')
          /\ dbQuotas'[i].quotaBytes = dbQuotas[i].quotaBytes]_vars

(***************************************************************************)
(* Properties of the admin delete                                          *)
(***************************************************************************)
\* The step removes an object from storage or a record from the files.
SomethingRemoved ==
  \/ \E p \in DOMAIN storage : p \notin DOMAIN storage'
  \/ \E f \in dbFiles : f \notin dbFiles'

\* C28: handleAdminDelete goes on to its removals only in the step in
\* which its 'admin_delete' entry is written; when the log write fails the
\* delete ends with storage, the records and the log unchanged; and an
\* object or a record is removed only by a delete past its log write.
C28_AdminDeleteLoggedFirst ==
  [][/\ \A a \in AdminDeleteIds :
          /\ ad[a].pc = "idle" /\ ad'[a].pc # "idle" =>
               /\ ad'[a].pc = "remove"
               /\ \E l \in dbLogs' \ dbLogs :
                    /\ l.fileId = ad'[a].file.id
                    /\ l.action = "admin_delete" /\ l.userId = Admin
               /\ ~SomethingRemoved
          /\ /\ ad[a].pc = "idle" /\ ad'[a].pc = "idle"
             /\ \E i \in DOMAIN toast' :
                  toast'[i].user = Admin /\ toast'[i].title = "Delete failed"
             => UNCHANGED <<storage, dbFiles, dbLogs>>
     /\ SomethingRemoved =>
          \/ \E a \in AdminDeleteIds :
               ad[a].pc \in {"remove", "dbDelete"} /\ ad'[a] # ad[a]
          \/ \E d \in DeleteIds :
               hd[d].pc \in {"remove", "dbDelete"} /\ hd'[d] # hd[d]]_vars

\* The admin has deleted a file: its 'admin_delete' entry is in the log and
\* its object and its record are gone.
C28_Witness ==
  \E a \in AdminDeleteIds :
    /\ ad[a].pc = "deleted" /\ ad[a].ok
    /\ ad[a].file \notin dbFiles
    /\ ad[a].file.storagePath \notin DOMAIN storage
    /\ \E l \in dbLogs :
         l.fileId = ad[a].file.id /\ l.action = "admin_delete"

(***************************************************************************)
(* Properties of the refresh trigger                                       *)
(***************************************************************************)
\* The toasts of title shown to user u by the step just taken.
ToastsOf(ts, u, title) ==
  {i \in DOMAIN ts : ts[i].user = u /\ ts[i].title = title}

\* In every step the refresh trigger of a user goes up by the number of
\* uploads of the user the step completes with success, which is the step
\* of a run at its log write; rejected and failed uploads leave it.
TriggerCountsUploads ==
  \A u \in Users :
    /\ refreshTrigger'[u] =
         refreshTrigger[u]
           + Cardinality(ToastsOf(toast', u, "Upload successful"))
    /\ Cardinality(ToastsOf(toast', u, "Upload successful")) <= 1
    /\ ToastsOf(toast', u, "Upload successful") # {} =>
         \E r \in RunIds :
           hf[r].pc = "log" /\ hf[r].user = u /\ hf'[r] # hf[r]

\* An upload of the user has just completed with success.
UploadJustCompleted(u) == ToastsOf(toast, u, "Upload successful") # {}

\* Every record of the user is in the list shown (a deleted one need not
\* be).
RecordsShown(u) ==
  \A f \in dbFiles :
    f.userId = u => \E i \in DOMAIN files[u] : files[u][i] = f

\* A loadFiles call of the user has just failed, the effect having run for
\* the current trigger.
ReloadJustFailed(u) ==
  /\ ToastsOf(toast, u, "Error loading files") # {}
  /\ effectRan[u] = refreshTrigger[u]

FileEnds(r) ==
  /\ hf[r].pc \in {"upload", "create", "log"}
  /\ hf'[r].entryId # hf[r].entryId

\* The progress entries of user u are in a final status.
EntriesFinal(ents) ==
  \A i \in DOMAIN ents : ents[i].status \in {"completed", "error"}

\* When run r ends a file, however it ends, the entry of the file is in a
\* final status, the too large files that follow are rejected in their
\* order, and the next file that is not too large is attempted: the run is
\* at its storage upload with a progress entry added.  The run ends only
\* when no file is left.
BatchGoesOn(r) ==
  FileEnds(r) =>
    LET u == hf[r].user
        rej == RejectedPrefix(hf[r].queue)
        rest == AfterRejected(hf[r].queue)
        tl == SelectSeq(toast', LAMBDA t : t.title = "File too large")
        last == uploadingFiles'[u][Len(uploadingFiles'[u])]
    IN /\ \A i \in DOMAIN uploadingFiles'[u] :
            uploadingFiles'[u][i].id = hf[r].entryId =>
              uploadingFiles'[u][i].status \in {"completed", "error"}
       /\ tl = [i \in 1..Len(rej) |-> Toast(u, "File too large", rej[i].name)]
       /\ hf[r].queue = rej \o rest
       /\ IF rest = <<>>
            THEN hf'[r].pc = "idle"
            ELSE /\ hf'[r].pc = "upload"
                 /\ hf'[r].cur = Head(rest)
                 /\ hf'[r].queue = Tail(rest)
                 /\ uploadingFiles'[u] # <<>>
                 /\ last = UploadEntry(hf'[r].entryId, Head(rest))

====
